---- MODULE Spec2Model ----
(***************************************************************************)
(* State-machine model of the campus-safety application (tccweb):          *)
(* report lifecycle, counselor queue, smart assignment, encrypted chat     *)
(* messages, emotion / risk scoring and the counselor audit trail.         *)
(*                                                                         *)
(* Conventions                                                             *)
(*   - a database table is a sequence of rows; the primary key of a row    *)
(*     is its index, so creation order is primary-key order.  ChatMessage  *)
(*     timestamps (auto_now_add) are taken to be distinct, so "ORDER BY    *)
(*     timestamp" is creation order as well.                               *)
(*   - NULL foreign keys and NULL datetimes are NoUser / NoTime.           *)
(*   - a text is a sequence of tokens: words of a small vocabulary and WS, *)
(*     a run of extra whitespace.  Adjacent words are separated by exactly *)
(*     one blank.                                                          *)
(*   - polarities are integers in hundredths (TextBlob polarity * 100);    *)
(*     the blended polarity is kept in thousandths.                        *)
(***************************************************************************)
EXTENDS Integers, Sequences, FiniteSets, TLC

\* ------------------------------------------------------------------ bounds
MaxReports == 1
MaxBacklog == 2
MaxMessages == 2
MaxNotes == 1
MaxAlerts == 2
MaxLog == 2
MaxContext == 1
MaxTextLen == 2
MaxUsers == 5
MaxSecurityLog == 2
MaxClock == 620
MaxLogins == 4
MaxSockets == 2
MaxReceived == 2

\* --------------------------------------------------------------- constants
NoUser == 0
NoTime == 0
NoKey == 0

\* core/models.py ReportType, ReportStatus
ReportTypes == {"bullying", "ragging", "harassment", "other"}
PENDING == "pending"
UNDER_REVIEW == "under_review"
RESOLVED == "resolved"
ReportStatusValues == {PENDING, UNDER_REVIEW, RESOLVED}

\* counselor_portal/models.py EmotionLabel, RiskLevel
EmotionLabelValues == {"anxious", "angry", "stressed", "calm", "neutral"}
RiskLevelValues == {"normal", "elevated", "critical"}

\* CounselorProfile.max_active_cases default
DefaultMaxActiveCases == 25

\* RSA-2048 with OAEP/SHA-256 encrypts at most 256 - 2*32 - 2 bytes
OaepMaxBytes == 190

\* report_messages passes the student's latest five messages as context
HistoryLimit == 5
AUTO_LOGOUT_TIMEOUT == 300

\* ------------------------------------------------------------------- texts
WS == " "
NL == "\n"
Words == {"kill", "myself", "worried", "angry", "tired", "fine", "hello", "essay"}
Tokens == Words \cup {WS}

\* bytes of a token; "essay" stands for a 200-byte run of keyword-free prose
TokenBytes(t) == IF t = "essay" THEN 200 ELSE IF t = WS THEN 1 ELSE 5

RECURSIVE ByteLen(_)
ByteLen(text) ==
    IF text = <<>> THEN 0
    ELSE TokenBytes(Head(text)) + (IF Len(text) > 1 THEN 1 ELSE 0) + ByteLen(Tail(text))

IsSpace(t) == t \in {WS, NL}

RECURSIVE LStrip(_)
LStrip(text) ==
    IF text # <<>> /\ IsSpace(Head(text)) THEN LStrip(Tail(text)) ELSE text

RECURSIVE RStrip(_)
RStrip(text) ==
    IF text # <<>> /\ IsSpace(text[Len(text)])
    THEN RStrip(SubSeq(text, 1, Len(text) - 1))
    ELSE text

\* str.strip()
Strip(text) == RStrip(LStrip(text))

\* " \n".join(context): the items separated by blank-newline
RECURSIVE JoinContext(_)
JoinContext(ctx) ==
    IF ctx = <<>> THEN <<>>
    ELSE IF Len(ctx) = 1 THEN ctx[1]
    ELSE ctx[1] \o <<NL>> \o JoinContext(Tail(ctx))

\* re.search of a phrase of single-blank separated words
MatchesPhrase(text, phrase) ==
    \E i \in 1..Len(text) :
        /\ i + Len(phrase) - 1 <= Len(text)
        /\ \A j \in 1..Len(phrase) : text[i + j - 1] = phrase[j]

MatchesAny(text, phrases) == \E p \in phrases : MatchesPhrase(text, p)

\* the compiled keyword families of emotion.py, cut down to the vocabulary
CRITICAL_PATTERNS == {<<"kill", "myself">>}
ANXIOUS_PATTERNS == {<<"worried">>}
ANGRY_PATTERNS == {<<"angry">>}
STRESSED_PATTERNS == {<<"tired">>}
CALM_PATTERNS == {<<"fine">>}

\* [c for c in (context or []) if c]
RECURSIVE DropEmpty(_)
DropEmpty(ctx) ==
    IF ctx = <<>> THEN <<>>
    ELSE IF Head(ctx) = <<>> THEN DropEmpty(Tail(ctx))
    ELSE <<Head(ctx)>> \o DropEmpty(Tail(ctx))

\* text_for_patterns of analyze_emotion
TextForPatterns(message, context) ==
    LET combined == JoinContext(DropEmpty(context))
    IN  IF combined # <<>> THEN combined \o <<NL>> \o Strip(message)
        ELSE Strip(message)

\* blended_polarity in thousandths: polarity * 0.7 + contextual_polarity * 0.3,
\* where the contextual polarity is the message's own when there is no context
BlendedPolarity(message, context, polarity, ctxPolarity) ==
    LET combined == JoinContext(DropEmpty(context))
        contextual == IF combined # <<>> THEN ctxPolarity ELSE polarity
    IN  7 * polarity + 3 * contextual

\* faulty variant of EmotionLabelOf: the angry family is tried before the
\* anxious one
EmotionLabelOfAngryFirst(message, context, polarity, ctxPolarity) ==
    LET text == TextForPatterns(message, context)
        blended == BlendedPolarity(message, context, polarity, ctxPolarity)
    IN  IF MatchesAny(text, CRITICAL_PATTERNS) THEN "stressed"
        ELSE IF MatchesAny(text, ANGRY_PATTERNS) THEN "angry"
        ELSE IF MatchesAny(text, ANXIOUS_PATTERNS) THEN "anxious"
        ELSE IF MatchesAny(text, STRESSED_PATTERNS) THEN "stressed"
        ELSE IF MatchesAny(text, CALM_PATTERNS) THEN "calm"
        ELSE IF blended > 250 THEN "calm"
        ELSE IF blended < -200 THEN "anxious"
        ELSE "neutral"

EmotionLabelOf(message, context, polarity, ctxPolarity) ==
    LET text == TextForPatterns(message, context)
        blended == BlendedPolarity(message, context, polarity, ctxPolarity)
    IN  IF MatchesAny(text, CRITICAL_PATTERNS) THEN "stressed"
        ELSE IF MatchesAny(text, ANXIOUS_PATTERNS) THEN "anxious"
        ELSE IF MatchesAny(text, ANGRY_PATTERNS) THEN "angry"
        ELSE IF MatchesAny(text, STRESSED_PATTERNS) THEN "stressed"
        ELSE IF MatchesAny(text, CALM_PATTERNS) THEN "calm"
        ELSE IF blended > 250 THEN "calm"
        ELSE IF blended < -200 THEN "anxious"
        ELSE "neutral"

\* faulty variant of EmotionRiskOf: the self-harm phrases are looked for in
\* the message alone, not in the context
EmotionRiskOfMessageOnly(message, context, polarity, ctxPolarity) ==
    LET blended == BlendedPolarity(message, context, polarity, ctxPolarity)
        label == EmotionLabelOf(message, context, polarity, ctxPolarity)
    IN  IF MatchesAny(Strip(message), CRITICAL_PATTERNS) THEN "critical"
        ELSE IF blended < -450 THEN "critical"
        ELSE IF blended < -250 \/ label \in {"anxious", "stressed"} THEN "elevated"
        ELSE "normal"

EmotionRiskOf(message, context, polarity, ctxPolarity) ==
    LET text == TextForPatterns(message, context)
        blended == BlendedPolarity(message, context, polarity, ctxPolarity)
        label == EmotionLabelOf(message, context, polarity, ctxPolarity)
    IN  IF MatchesAny(text, CRITICAL_PATTERNS) THEN "critical"
        ELSE IF blended < -450 THEN "critical"
        ELSE IF blended < -250 \/ label \in {"anxious", "stressed"} THEN "elevated"
        ELSE "normal"

\* analyze_emotion: the EmotionInsight (label, blended polarity, risk level)
analyze_emotion(message, context, polarity, ctxPolarity) ==
    [label |-> EmotionLabelOf(message, context, polarity, ctxPolarity),
     polarity |-> BlendedPolarity(message, context, polarity, ctxPolarity),
     risk_level |-> EmotionRiskOf(message, context, polarity, ctxPolarity)]


\* ------------------------------------------------------------------- state
VARIABLES
    users,          \* auth User rows: id -> is_staff / is_active / is_superuser
    profiles,       \* CounselorProfile rows, keyed by user id
    reports,        \* Report rows
    chatMessages,   \* ChatMessage rows
    userKeys,       \* UserKey rows: user id -> key pair id (NoKey: no row)
    caseNotes,      \* CaseNote rows
    adminAlerts,    \* AdminAlert rows
    systemLog,      \* SystemLog rows
    clock,          \* timezone.now()
    response,       \* the request served last and what it did
    emotionRun,     \* inputs and result of the last analyze_emotion call
    securityLog,    \* SecurityLog rows
    request,        \* request.POST of the account request served last
    session,        \* the browser session: its user, its data, its expiry
    inflight,       \* requests being served: the objects each one holds
    formResult,     \* the account form bound last: its errors, what save returned
    channelGroups,  \* the channel layer: which channel is in which group
    sockets         \* the websocket connections made: scope user, state, what
                    \* the client was sent

\* the state only the account, session and interleaved requests touch
\* the state of the websocket side
wsVars == <<channelGroups, sockets>>

siteVars == <<securityLog, request, session, inflight, formResult, wsVars>>

vars == <<users, profiles, reports, chatMessages, userKeys, caseNotes,
          adminAlerts, systemLog, clock, response, emotionRun, siteVars>>

Users == 1..3
Student == 1
Counselor == 2
Admin == 3

ReportIds == 1..Len(reports)

\* a CounselorProfile row that does not exist yet / as get_or_create makes it
NoProfile ==
    [exists |-> FALSE, specialization |-> "general",
     max_active_cases |-> DefaultMaxActiveCases,
     auto_assign_enabled |-> TRUE, last_auto_assigned_at |-> NoTime]

NewProfile == [NoProfile EXCEPT !.exists = TRUE]

NoQueue == <<>>

Reply(view, method, user, report, code, did) ==
    [view |-> view, method |-> method, user |-> user, report |-> report,
     code |-> code, did |-> did, queue |-> NoQueue, at |-> NoTime]

NoEmotionRun ==
    [message |-> <<>>, context |-> <<>>, polarity |-> 0, ctxPolarity |-> 0,
     done |-> FALSE, label |-> "neutral", blended |-> 0, risk_level |-> "normal",
     stored_label |-> "neutral", stored_risk |-> "normal"]

\* login_required: only an active account holds a session
LoggedIn(u) == users[u].is_active

\* counselor_portal/views.py _is_counselor
is_counselor(u) == users[u].is_staff

\* ------------------------------------------------------------- audit trail
LogEntry(u, action_type, r) == [user |-> u, action_type |-> action_type, object_id |-> r]

\* AuditLogMixin.log_action and its wrappers: one SystemLog row
log_action(log, u, action_type, r) == Append(log, LogEntry(u, action_type, r))
log_view(log, u, r) == log_action(log, u, "VIEWED", r)
log_edit(log, u, r) == log_action(log, u, "EDITED", r)

\* faulty variant of log_close: the closure is logged as an edit
log_close_as_edit(log, u, r) == log_action(log, u, "EDITED", r)

log_close(log, u, r) == log_action(log, u, "CLOSED", r)

LogRoom == Len(systemLog) < MaxLog

\* -------------------------------------------------------------- encryption
RECURSIVE MaxOf(_)
MaxOf(S) == IF S = {} THEN 0 ELSE LET x == CHOOSE x \in S : TRUE
                                      m == MaxOf(S \ {x})
                                  IN  IF x > m THEN x ELSE m

\* UserKey.get_or_create: the key table afterwards.  A user's key pair is
\* named by the user and by how many pairs were generated for the user so
\* far (rsa.generate_private_key never repeats a pair)
\* faulty variant of UserKey.get_or_create: a pair is generated at every call
UserKey_always_create(keys, u) == [keys EXCEPT ![u] = @ + 1]

UserKey_get_or_create(keys, u) ==
    IF keys[u] # NoKey THEN keys ELSE [keys EXCEPT ![u] = 1]

KeyPair(keys, u) == [owner |-> u, pair |-> keys[u]]

CanEncrypt(text) == ByteLen(text) <= OaepMaxBytes

\* ChatMessage._encrypt_for, given the key table after get_or_create
encrypt_for(keys, u, text) == [key |-> KeyPair(keys, u), plain |-> text]

DecryptError == <<"decryption failed">>

\* ChatMessage._decrypt_for, given the key table after get_or_create
decrypt_for(keys, u, cipher) ==
    IF cipher.key = KeyPair(keys, u) THEN cipher.plain ELSE DecryptError

\* ChatMessage.get_body_for
get_body_for(keys, m, u) ==
    IF u = m.sender THEN decrypt_for(keys, u, m.cipher_for_sender)
    ELSE decrypt_for(keys, u, m.cipher_for_recipient)

\* ChatMessage.create: the stored label falls back to neutral / normal
StoredEmotion(label) == IF label \in EmotionLabelValues THEN label ELSE "neutral"
StoredRisk(risk) == IF risk \in RiskLevelValues THEN risk ELSE "normal"

\* faulty variant of NewChatMessage: sender and recipient change places
NewChatMessageSwapped(keys, r, sender, recipient, text, label, risk) ==
    [report |-> r, sender |-> recipient, recipient |-> sender, body |-> text,
     cipher_for_sender |-> encrypt_for(keys, recipient, text),
     cipher_for_recipient |-> encrypt_for(keys, sender, text),
     emotion |-> StoredEmotion(label), risk_level |-> StoredRisk(risk),
     is_read |-> FALSE]

\* the row ChatMessage.create stores; body is a history field (the plaintext
\* handed to create), the database keeps the two ciphers only
NewChatMessage(keys, r, sender, recipient, text, label, risk) ==
    [report |-> r, sender |-> sender, recipient |-> recipient, body |-> text,
     cipher_for_sender |-> encrypt_for(keys, sender, text),
     cipher_for_recipient |-> encrypt_for(keys, recipient, text),
     emotion |-> StoredEmotion(label), risk_level |-> StoredRisk(risk),
     is_read |-> FALSE]

\* MessageForm.clean: the stripped message, valid with a message or a file
CleanedMessage(form) == Strip(form.message)
MessageFormValid(form) == CleanedMessage(form) # <<>> \/ form.attachment

\* filter(report=r, recipient=u, is_read=False).update(is_read=True)
MarkRead(msgs, r, u) ==
    [i \in 1..Len(msgs) |->
        IF msgs[i].report = r /\ msgs[i].recipient = u
        THEN [msgs[i] EXCEPT !.is_read = TRUE] ELSE msgs[i]]

\* primary keys of the report's messages sent by u, oldest first
RECURSIVE SentBy(_, _, _, _)
SentBy(msgs, r, u, i) ==
    IF i > Len(msgs) THEN <<>>
    ELSE (IF msgs[i].report = r /\ msgs[i].sender = u THEN <<i>> ELSE <<>>)
         \o SentBy(msgs, r, u, i + 1)

\* ChatMessage.objects.filter(report=r).order_by("-timestamp")[:1] sender
LatestSender(msgs, r) ==
    LET ids == {i \in 1..Len(msgs) : msgs[i].report = r}
    IN  IF ids = {} THEN NoUser ELSE msgs[MaxOf(ids)].sender

\* ----------------------------------------------------------- report intake
NewReport(reporter, t) ==
    [reporter |-> reporter, incident_type |-> t, status |-> PENDING,
     assigned_to |-> NoUser, assigned_at |-> NoTime, resolved_at |-> NoTime,
     awaiting_response |-> TRUE]

\* user_portal/views.py submit_report (POST, valid form)
SubmitReport(u, anon, t) ==
    /\ LoggedIn(u) /\ ~users[u].is_staff
    /\ Len(reports) < MaxReports
    /\ reports' = Append(reports, NewReport(IF anon THEN NoUser ELSE u, t))
    /\ response' = Reply("submit_report", "POST", u, Len(reports) + 1, 302, "submitted")
    /\ UNCHANGED siteVars
    /\ UNCHANGED <<users, profiles, chatMessages, userKeys, caseNotes, adminAlerts,
                   systemLog, clock, emotionRun>>

\* user_portal/views.py report_anonymous (POST, valid form)
ReportAnonymous(t) ==
    /\ Len(reports) < MaxReports
    /\ reports' = Append(reports, NewReport(NoUser, t))
    /\ response' = Reply("report_anonymous", "POST", NoUser, Len(reports) + 1, 302, "submitted")
    /\ UNCHANGED siteVars
    /\ UNCHANGED <<users, profiles, chatMessages, userKeys, caseNotes, adminAlerts,
                   systemLog, clock, emotionRun>>

\* ------------------------------------------------------------ claim a case
\* counselor_portal/views.py claim_case
ClaimCase(u, method, r) ==
    /\ LoggedIn(u) /\ is_counselor(u)
    /\ r \in ReportIds
    /\ IF reports[r].assigned_to # NoUser
       THEN /\ response' = Reply("claim_case", method, u, r, 404, "none")
            /\ UNCHANGED <<reports, systemLog>>
       ELSE IF method = "POST"
       THEN /\ LogRoom
            /\ reports' = [reports EXCEPT ![r] =
                  [@ EXCEPT !.assigned_to = u, !.status = UNDER_REVIEW,
                            !.assigned_at = clock, !.resolved_at = NoTime]]
            /\ systemLog' = log_edit(systemLog, u, r)
            /\ response' = Reply("claim_case", method, u, r, 302, "claim_case")
       ELSE /\ response' = Reply("claim_case", method, u, r, 302, "none")
            /\ UNCHANGED <<reports, systemLog>>
    /\ UNCHANGED siteVars
    /\ UNCHANGED <<users, profiles, chatMessages, userKeys, caseNotes, adminAlerts,
                   clock, emotionRun>>

\* ------------------------------------------------- administrator assignment
\* what a POST may carry as status: nothing, a choice, or any other string
PostedStatuses == {"", PENDING, UNDER_REVIEW, RESOLVED, "archived"}

\* admin_portal/views.py admin_case_assignment, the report it saves
AdminAssigned(rep, assigned_to, status) ==
    LET a1 == [rep EXCEPT !.assigned_to = assigned_to]
        \* the posted id is a string and the previous assignee an integer, so
        \* "assigned_to_id != previous_assignee" holds for every posted id
        a2 == IF assigned_to # NoUser
              THEN [a1 EXCEPT !.assigned_at = clock]
              ELSE [a1 EXCEPT !.assigned_at = NoTime]
        a3 == IF status = "" THEN a2
              ELSE LET s == [a2 EXCEPT !.status = status]
                   IN  IF status = RESOLVED
                       THEN (IF rep.status # RESOLVED
                             THEN [s EXCEPT !.resolved_at = clock] ELSE s)
                       ELSE IF rep.status = RESOLVED
                       THEN [s EXCEPT !.resolved_at = NoTime]
                       ELSE s
    IN  a3

AdminCaseAssignment(u, method, r, assigned_to, status) ==
    /\ LoggedIn(u) /\ users[u].is_superuser
    /\ r \in ReportIds
    /\ IF method = "POST"
       THEN /\ reports' = [reports EXCEPT ![r] = AdminAssigned(@, assigned_to, status)]
            /\ response' = Reply("admin_case_assignment", method, u, r, 302, "updated")
       ELSE /\ response' = Reply("admin_case_assignment", method, u, r, 200, "none")
            /\ UNCHANGED reports
    /\ UNCHANGED siteVars
    /\ UNCHANGED <<users, profiles, chatMessages, userKeys, caseNotes, adminAlerts,
                   systemLog, clock, emotionRun>>

\* ---------------------------------------------------------- counselor queue
\* the queue_case CASE expression of dashboard and analytics_dashboard
\* faulty variant of QueueState: an unassigned report is new even when resolved
QueueStateNewFirst(rep, latest_message_sender, viewer) ==
    IF rep.assigned_to = NoUser THEN "new"
    ELSE IF rep.status = RESOLVED THEN "closed"
    ELSE IF latest_message_sender # NoUser /\ latest_message_sender = viewer
         THEN "waiting_on_student"
    ELSE "assigned_to_me"

QueueState(rep, latest_message_sender, viewer) ==
    IF rep.status = RESOLVED THEN "closed"
    ELSE IF rep.assigned_to = NoUser THEN "new"
    ELSE IF latest_message_sender # NoUser /\ latest_message_sender = viewer
         THEN "waiting_on_student"
    ELSE IF rep.assigned_to = viewer THEN "assigned_to_me"
    ELSE "assigned_to_me"

\* Report.objects.filter(Q(assigned_to=user) | Q(assigned_to__isnull=True))
VisibleTo(u) == {r \in ReportIds : reports[r].assigned_to \in {u, NoUser}}

\* counselor_portal/views.py dashboard (no filters): every visible report
\* with its queue_state
Dashboard(u) ==
    /\ LoggedIn(u) /\ is_counselor(u)
    /\ response' =
          [Reply("dashboard", "GET", u, 0, 200, "none") EXCEPT !.queue =
              [r \in VisibleTo(u) |->
                  QueueState(reports[r], LatestSender(chatMessages, r), u)]]
    /\ UNCHANGED siteVars
    /\ UNCHANGED <<users, profiles, reports, chatMessages, userKeys, caseNotes,
                   adminAlerts, systemLog, clock, emotionRun>>

\* ------------------------------------------------------------- case detail
\* what a POST to case_detail carries: the submit buttons named, whether the
\* note form validates, the message typed and whether a file is attached
NoForm ==
    [add_note |-> FALSE, note_valid |-> FALSE, resolve_case |-> FALSE,
     send_msg |-> FALSE, message |-> <<>>, attachment |-> FALSE]

Superusers == {a \in Users : users[a].is_superuser}

\* the AdminAlert rows of one resolution: one per superuser, in id order
RECURSIVE AlertsFor(_, _, _)
AlertsFor(r, admins, i) ==
    IF i > Cardinality(Users) THEN <<>>
    ELSE (IF i \in admins THEN <<[admin |-> i, report |-> r, is_read |-> FALSE]>>
          ELSE <<>>) \o AlertsFor(r, admins, i + 1)

\* the rest of case_detail once no POST branch has returned: unread messages
\* to the viewer are marked read and the latest student message is decrypted
\* for the suggested replies (which makes the viewer's key pair if missing)
CaseDetailRender(u, method, r, did) ==
    LET rep == reports[r]
        incoming == IF rep.reporter = NoUser THEN <<>>
                    ELSE SentBy(chatMessages, r, rep.reporter, 1)
    IN  /\ chatMessages' = MarkRead(chatMessages, r, u)
        /\ userKeys' = IF incoming # <<>> THEN UserKey_get_or_create(userKeys, u)
                       ELSE userKeys
        /\ response' = Reply("case_detail", method, u, r, 200, did)
        /\ UNCHANGED <<reports, caseNotes, adminAlerts>>

\* faulty variant of IsOwner: whoever may open the case counts as its owner
IsOwnerAnyViewer(rep, u) == TRUE

\* is_owner of case_detail
IsOwner(rep, u) == rep.assigned_to = u

\* counselor_portal/views.py case_detail
CaseDetail(u, method, r, form) ==
    /\ LoggedIn(u) /\ is_counselor(u)
    /\ r \in ReportIds
    /\ LET rep == reports[r]
           is_owner == IsOwner(rep, u)
           text == CleanedMessage(form)
       IN
       IF rep.assigned_to \notin {u, NoUser}
       THEN \* get_object_or_404
            /\ response' = Reply("case_detail", method, u, r, 404, "none")
            /\ UNCHANGED <<reports, chatMessages, userKeys, caseNotes, adminAlerts,
                           systemLog>>
       ELSE IF method = "GET"
       THEN /\ LogRoom
            /\ systemLog' = log_view(systemLog, u, r)
            /\ CaseDetailRender(u, method, r, "viewed")
       ELSE IF form.add_note /\ is_owner /\ form.note_valid
       THEN /\ LogRoom /\ Len(caseNotes) < MaxNotes
            /\ caseNotes' = Append(caseNotes, [report |-> r, counselor |-> u])
            /\ systemLog' = log_edit(systemLog, u, r)
            /\ response' = Reply("case_detail", method, u, r, 302, "add_note")
            /\ UNCHANGED <<reports, chatMessages, userKeys, adminAlerts>>
       ELSE IF form.resolve_case /\ is_owner
       THEN \* save(update_fields=["status", "awaiting_response"]): the
            \* resolved_at set on the instance is not written
            /\ LogRoom /\ Len(adminAlerts) + Cardinality(Superusers) <= MaxAlerts
            /\ reports' = [reports EXCEPT ![r] =
                  [@ EXCEPT !.status = RESOLVED, !.awaiting_response = FALSE]]
            /\ systemLog' = log_close(systemLog, u, r)
            /\ adminAlerts' = adminAlerts \o AlertsFor(r, Superusers, 1)
            /\ response' = Reply("case_detail", method, u, r, 302, "resolve_case")
            /\ UNCHANGED <<chatMessages, userKeys, caseNotes>>
       ELSE IF form.send_msg /\ is_owner /\ MessageFormValid(form) /\ rep.reporter # NoUser
       THEN IF ~CanEncrypt(text)
            THEN \* _encrypt_for(sender) raises after get_or_create(sender)
                 /\ userKeys' = UserKey_get_or_create(userKeys, u)
                 /\ response' = Reply("case_detail", method, u, r, 500, "none")
                 /\ UNCHANGED <<reports, chatMessages, caseNotes, adminAlerts, systemLog>>
            ELSE LET k1 == UserKey_get_or_create(userKeys, u)
                     k2 == UserKey_get_or_create(k1, rep.reporter)
                 IN  /\ LogRoom /\ Len(chatMessages) < MaxMessages
                     /\ userKeys' = k2
                     /\ chatMessages' = Append(chatMessages,
                           NewChatMessage(k2, r, u, rep.reporter, text, "neutral", "normal"))
                     /\ reports' = [reports EXCEPT ![r].awaiting_response = FALSE]
                     /\ systemLog' = log_edit(systemLog, u, r)
                     /\ response' = Reply("case_detail", method, u, r, 302, "send_msg")
                     /\ UNCHANGED <<caseNotes, adminAlerts>>
       ELSE /\ CaseDetailRender(u, method, r, "none")
            /\ UNCHANGED systemLog
    /\ UNCHANGED siteVars
    /\ UNCHANGED <<users, profiles, clock, emotionRun>>

\* ------------------------------------------------------------ notifications
\* f"user_{pk}"
GroupName(pk) == <<"user_", pk>>
NoGroup == <<>>

\* the event handed to group_send; group is a history field (the group the
\* event was sent to), data stands for the title, body and url
Event(group, title, r) ==
    [type |-> "notify", group |-> group, data |-> [title |-> title, report |-> r]]

\* a connection as connect() leaves it
NewSocket(user, state, group_name) ==
    [user |-> user, state |-> state, group_name |-> group_name, received |-> <<>>]

Members(group) == {c \in DOMAIN sockets : <<group, c>> \in channelGroups}

\* what the clients of this model have room to be sent
NotifyRoom(group) == \A c \in Members(group) : Len(sockets[c].received) < MaxReceived

\* channel_layer.group_send and NotificationConsumer.notify: every channel
\* in the group forwards the event to its client
group_send(group, event) ==
    [c \in DOMAIN sockets |->
        IF c \in Members(group)
        THEN [sockets[c] EXCEPT !.received = Append(@, event)]
        ELSE sockets[c]]

\* faulty variant of notified_group: the notification goes to the reporter
notified_group_reporter(rep, sender) == GroupName(rep.reporter)

\* user_portal/views.py _notify_counselor_new_message: the group it sends to
notified_group(rep, sender) ==
    IF sender.is_staff \/ rep.assigned_to = NoUser THEN NoGroup
    ELSE GroupName(rep.assigned_to)

notify_counselor_new_message(rep, sender, r) ==
    LET group == notified_group(rep, sender)
    IN  IF group = NoGroup THEN sockets
        ELSE group_send(group, Event(group, "New message", r))

\* counselor_portal/services.py _notify_assignment
notify_assignment(r, counselor) ==
    group_send(GroupName(counselor), Event(GroupName(counselor), "New case assigned", r))

\* core/consumers.py NotificationConsumer.connect, for a connection whose
\* scope names user (NoUser: anonymous)
Connect(user) ==
    /\ Len(sockets) < MaxSockets
    /\ user # NoUser => users[user].is_active
    /\ LET c == Len(sockets) + 1
       IN  IF user = NoUser
           THEN /\ sockets' = Append(sockets, NewSocket(NoUser, "closed", NoGroup))
                /\ UNCHANGED channelGroups
                /\ response' = Reply("NotificationConsumer.connect", "WS", user, 0, 0,
                                     "closed")
           ELSE /\ sockets' = Append(sockets,
                                     NewSocket(user, "open", GroupName(user)))
                /\ channelGroups' = channelGroups \cup {<<GroupName(user), c>>}
                /\ response' = Reply("NotificationConsumer.connect", "WS", user, 0, 0,
                                     "accepted")
    /\ UNCHANGED <<users, profiles, reports, chatMessages, userKeys, caseNotes,
                   adminAlerts, systemLog, clock, emotionRun, securityLog, request,
                   session, inflight, formResult>>

\* NotificationConsumer.disconnect
Disconnect(c) ==
    /\ c \in DOMAIN sockets /\ sockets[c].state = "open"
    /\ sockets' = [sockets EXCEPT ![c].state = "closed"]
    /\ channelGroups' =
          IF sockets[c].group_name # NoGroup
          THEN channelGroups \ {<<sockets[c].group_name, c>>}
          ELSE channelGroups
    /\ response' = Reply("NotificationConsumer.disconnect", "WS", sockets[c].user,
                         0, 0, "closed")
    /\ UNCHANGED <<users, profiles, reports, chatMessages, userKeys, caseNotes,
                   adminAlerts, systemLog, clock, emotionRun, securityLog, request,
                   session, inflight, formResult>>

\* --------------------------------------------------------- student messages
\* polarities TextBlob may report for a text (hundredths)
Polarities == {-100, -45, -30, -25, -22, -20, 0, 25, 30}
CtxPolarities == {-100, 0, 100}

\* the last n items of a sequence
LastN(seq, n) == IF Len(seq) <= n THEN seq ELSE SubSeq(seq, Len(seq) - n + 1, Len(seq))

\* the bodies get_body_for returns for the rows ids, failures skipped
RECURSIVE Bodies(_, _, _, _)
Bodies(keys, msgs, ids, u) ==
    IF ids = <<>> THEN <<>>
    ELSE LET b == get_body_for(keys, msgs[Head(ids)], u)
         IN  (IF b = DecryptError THEN <<>> ELSE <<b>>) \o Bodies(keys, msgs, Tail(ids), u)

\* prior_context of report_messages: the student's latest messages of the
\* report, oldest first
PriorContext(keys, msgs, r, u) ==
    Bodies(keys, msgs, LastN(SentBy(msgs, r, u, 1), HistoryLimit), u)

\* user_portal/views.py report_messages
ReportMessages(u, method, r, form, polarity, ctxPolarity) ==
    /\ LoggedIn(u) /\ ~users[u].is_staff
    /\ r \in ReportIds
    /\ LET rep == reports[r]
           text == CleanedMessage(form)
       IN
       IF rep.reporter # u
       THEN /\ response' = Reply("report_messages", method, u, r, 404, "none")
            /\ UNCHANGED <<reports, chatMessages, userKeys, sockets>>
       ELSE IF method = "POST" /\ MessageFormValid(form) /\ rep.assigned_to # NoUser
       THEN LET history == SentBy(chatMessages, r, u, 1)
                k0 == IF history # <<>> THEN UserKey_get_or_create(userKeys, u)
                      ELSE userKeys
                insight == analyze_emotion(text, PriorContext(k0, chatMessages, r, u),
                                           polarity, ctxPolarity)
                k1 == UserKey_get_or_create(k0, u)
                k2 == UserKey_get_or_create(k1, rep.assigned_to)
            IN  IF ~CanEncrypt(text)
                THEN /\ userKeys' = k1
                     /\ response' = Reply("report_messages", method, u, r, 500, "none")
                     /\ UNCHANGED <<reports, chatMessages, sockets>>
                ELSE /\ Len(chatMessages) < MaxMessages
                     /\ NotifyRoom(notified_group(rep, users[u]))
                     /\ userKeys' = k2
                     /\ chatMessages' = Append(chatMessages,
                           NewChatMessage(k2, r, u, rep.assigned_to, text,
                                          insight.label, insight.risk_level))
                     /\ reports' = [reports EXCEPT ![r].awaiting_response = TRUE]
                     /\ sockets' = notify_counselor_new_message(rep, users[u], r)
                     /\ response' = Reply("report_messages", method, u, r, 302, "send_msg")
       ELSE /\ chatMessages' = MarkRead(chatMessages, r, u)
            /\ response' = Reply("report_messages", method, u, r, 200, "none")
            /\ UNCHANGED <<reports, userKeys, sockets>>
    /\ UNCHANGED <<securityLog, request, session, inflight, formResult, channelGroups>>
    /\ UNCHANGED <<users, profiles, caseNotes, adminAlerts, systemLog, clock, emotionRun>>

\* ---------------------------------------------------------- smart assignment
\* services.py SPECIALIZATION_RULES / _target_specialization
target_specialization(rep) ==
    IF rep.incident_type \in {"bullying", "ragging"} THEN "disciplinary"
    ELSE IF rep.incident_type = "harassment" THEN "emotional"
    ELSE "general"

\* services.py _collect_staff_profiles: the profile table afterwards (a
\* default row is made for every active staff user that has none)
StaffIds == {u \in Users : users[u].is_staff /\ users[u].is_active}

collect_staff_profiles(profs) ==
    [u \in Users |-> IF u \in StaffIds /\ ~profs[u].exists THEN NewProfile ELSE profs[u]]

\* Report rows assigned to u and not resolved
active_cases(u) ==
    Cardinality({r \in ReportIds :
        reports[r].assigned_to = u /\ reports[r].status # RESOLVED})

specialization_rank(prof, target) ==
    IF prof.specialization = target THEN 0
    ELSE IF prof.specialization = "general" THEN 1
    ELSE 2

\* services.py _build_candidates, over the collected profiles
\* faulty variant of build_candidates: a counselor at capacity is kept
build_candidates_at_capacity(profs, rep) ==
    {u \in StaffIds :
        /\ profs[u].auto_assign_enabled /\ users[u].is_staff /\ users[u].is_active
        /\ active_cases(u) <= profs[u].max_active_cases}

build_candidates(profs, rep) ==
    {u \in StaffIds :
        /\ profs[u].auto_assign_enabled /\ users[u].is_staff /\ users[u].is_active
        /\ active_cases(u) < profs[u].max_active_cases}

\* the sort key of assign_counselor; a NULL last_auto_assigned_at sorts as
\* datetime.min, which NoTime is
\* faulty variant of CandidateKey: the workload is compared before the
\* specialization
CandidateKeyWorkloadFirst(profs, rep, u) ==
    <<active_cases(u), specialization_rank(profs[u], target_specialization(rep)),
      profs[u].last_auto_assigned_at, u>>

CandidateKey(profs, rep, u) ==
    <<specialization_rank(profs[u], target_specialization(rep)), active_cases(u),
      profs[u].last_auto_assigned_at, u>>

\* tuple comparison of Python
RECURSIVE LexLess(_, _)
LexLess(a, b) ==
    IF a = <<>> \/ b = <<>> THEN a = <<>> /\ b # <<>>
    ELSE IF Head(a) # Head(b) THEN Head(a) < Head(b)
    ELSE LexLess(Tail(a), Tail(b))

\* candidates.sort(key=...)[0]
chosen_candidate(profs, rep, cands) ==
    CHOOSE u \in cands :
        \A v \in cands \ {u} : LexLess(CandidateKey(profs, rep, u), CandidateKey(profs, rep, v))

\* services.py assign_counselor
AssignCounselor(r) ==
    /\ r \in ReportIds
    /\ IF reports[r].assigned_to # NoUser
       THEN /\ response' = Reply("assign_counselor", "CALL", NoUser, r, 0, "none")
            /\ UNCHANGED <<reports, profiles, sockets>>
       ELSE LET profs == collect_staff_profiles(profiles)
                cands == build_candidates(profs, reports[r])
            IN  IF cands = {}
                THEN /\ profiles' = profs
                     /\ response' = Reply("assign_counselor", "CALL", NoUser, r, 0, "none")
                     /\ UNCHANGED <<reports, sockets>>
                ELSE LET chosen == chosen_candidate(profs, reports[r], cands)
                     IN  /\ reports' = [reports EXCEPT ![r] =
                               [@ EXCEPT !.assigned_to = chosen, !.status = UNDER_REVIEW]]
                         \* mark_assigned_now
                         /\ profiles' = [profs EXCEPT ![chosen].last_auto_assigned_at = clock]
                         /\ NotifyRoom(GroupName(chosen))
                         /\ sockets' = notify_assignment(r, chosen)
                         /\ response' = Reply("assign_counselor", "CALL", chosen, r, 0, "assigned")
    /\ UNCHANGED <<securityLog, request, session, inflight, formResult, channelGroups>>
    /\ UNCHANGED <<users, chatMessages, userKeys, caseNotes, adminAlerts, systemLog,
                   clock, emotionRun>>

\* --------------------------------------------------------- emotion analysis
SeqsUpTo(S, n) == UNION {[1..k -> S] : k \in 0..n}

\* the texts analyze_emotion is run on: a message as typed, and earlier
\* (stored, hence stripped) messages as context
TypedTexts == SeqsUpTo(Tokens \ {"essay"}, MaxTextLen)
ContextTexts ==
    {<<>>, <<"kill", "myself">>, <<"kill">>, <<"myself">>, <<"worried">>, <<"fine">>,
     <<"hello">>}

\* one call of analyze_emotion followed by the label ChatMessage.create stores
AnalyzeEmotion ==
    /\ ~emotionRun.done
    /\ LET insight == analyze_emotion(emotionRun.message, emotionRun.context,
                                      emotionRun.polarity, emotionRun.ctxPolarity)
       IN  emotionRun' = [emotionRun EXCEPT
               !.done = TRUE, !.label = insight.label, !.blended = insight.polarity,
               !.risk_level = insight.risk_level,
               !.stored_label = StoredEmotion(insight.label),
               !.stored_risk = StoredRisk(insight.risk_level)]
    /\ UNCHANGED siteVars
    /\ UNCHANGED <<users, profiles, reports, chatMessages, userKeys, caseNotes,
                   adminAlerts, systemLog, clock, response>>

\* ---------------------------------------------------------------- accounts
\* a string as its lower-case form and whether it is written with capitals
Word(base, caps) == [base |-> base, caps |-> caps]

\* str.lower / the case folding of the __iexact lookup
Lower(w) == [w EXCEPT !.caps = FALSE]

\* an address local@domain, padded: it is sent with blanks around it
Email(local, domain, padded) == [local |-> local, domain |-> domain, padded |-> padded]

NoEmail == Email(Word("", FALSE), Word("", FALSE), FALSE)

\* forms.EmailField strips the value, clean_email strips it again
EmailStrip(e) == [e EXCEPT !.padded = FALSE]

\* BaseUserManager.normalize_email, called by create_superuser: the domain
\* part is lower-cased, the local part is kept
normalize_email(e) == [EmailStrip(e) EXCEPT !.domain = Lower(@)]

exact(a, b) == a = b

\* the lookup email__iexact
iexact(a, b) ==
    /\ Lower(a.local) = Lower(b.local)
    /\ Lower(a.domain) = Lower(b.domain)
    /\ a.padded = b.padded

\* a User row as the forms create it: active, in no group
Account(username, email, is_staff, is_superuser) ==
    [username |-> username, email |-> email, is_staff |-> is_staff,
     is_active |-> TRUE, is_superuser |-> is_superuser, groups |-> {}]

\* the group whose members the tests call super administrators
SUPER_ADMIN_GROUP_NAME == "Super Administrators"

\* the row left where an account was removed: primary keys are not reused
RemovedAccount ==
    [username |-> "", email |-> NoEmail, is_staff |-> FALSE, is_superuser |-> FALSE,
     is_active |-> FALSE, groups |-> {}]

UserIds == {t \in DOMAIN users : users[t] # RemovedAccount}

Usernames == {users[t].username : t \in UserIds}

PERMISSION_GRANTED == "PERMISSION_GRANTED"
PERMISSION_REVOKED == "PERMISSION_REVOKED"

\* SecurityLog.objects.create: one row
SecurityEntry(actor, target_user, event_type) ==
    [actor |-> actor, target_user |-> target_user, event_type |-> event_type]

SecurityLogRoom == Len(securityLog) < MaxSecurityLog

\* request.POST of a request to the account pages
Post(form_type, user_id, action, username, email, passwords_ok) ==
    [form_type |-> form_type, user_id |-> user_id, action |-> action,
     username |-> username, email |-> email, passwords_ok |-> passwords_ok]

NoRequest == Post("", NoUser, "", "", NoEmail, FALSE)

\* UserCreationForm.is_valid with the required email field
CounselorCreationFormValid(post) ==
    /\ post.username # "" /\ post.username \notin Usernames
    /\ post.email # NoEmail
    /\ post.passwords_ok

\* CounselorCreationForm.save
CounselorCreationForm_save(post) ==
    Account(post.username, EmailStrip(post.email), TRUE, FALSE)

\* admin_user_management, the branch of the approve and revoke buttons:
\* the flag the target gets and the event that is logged (NoEvent: none)
NoEvent == "none"

StaffChangeSwapped(target, action) ==
    IF action = "approve" /\ ~target.is_staff
    THEN [is_staff |-> TRUE, event_type |-> PERMISSION_REVOKED]
    ELSE IF action = "revoke" /\ target.is_staff
    THEN [is_staff |-> FALSE, event_type |-> PERMISSION_GRANTED]
    ELSE [is_staff |-> target.is_staff, event_type |-> NoEvent]

StaffChange(target, action) ==
    IF action = "approve" /\ ~target.is_staff
    THEN [is_staff |-> TRUE, event_type |-> PERMISSION_GRANTED]
    ELSE IF action = "revoke" /\ target.is_staff
    THEN [is_staff |-> FALSE, event_type |-> PERMISSION_REVOKED]
    ELSE [is_staff |-> target.is_staff, event_type |-> NoEvent]

\* admin_portal/views.py admin_user_management
AdminUserManagement(u, method, post) ==
    /\ u \in UserIds /\ LoggedIn(u)
    /\ request' = post
    /\ IF ~users[u].is_superuser
       THEN /\ response' = Reply("admin_user_management", method, u, 0, 302, "login")
            /\ UNCHANGED <<users, securityLog>>
       ELSE IF method = "POST" /\ post.form_type = "create"
       THEN IF CounselorCreationFormValid(post)
            THEN /\ Len(users) < MaxUsers /\ SecurityLogRoom
                 /\ users' = Append(users, CounselorCreationForm_save(post))
                 /\ securityLog' = Append(securityLog,
                        SecurityEntry(u, Len(users) + 1, PERMISSION_GRANTED))
                 /\ response' = Reply("admin_user_management", method, u, 0, 302, "create")
            ELSE /\ response' = Reply("admin_user_management", method, u, 0, 200, "none")
                 /\ UNCHANGED <<users, securityLog>>
       ELSE IF method = "POST"
       THEN IF post.user_id \notin UserIds
            THEN /\ response' = Reply("admin_user_management", method, u, 0, 404, "none")
                 /\ UNCHANGED <<users, securityLog>>
            ELSE LET change == StaffChange(users[post.user_id], post.action)
                 IN  /\ users' = [users EXCEPT ![post.user_id].is_staff = change.is_staff]
                     /\ IF change.event_type # NoEvent
                        THEN /\ SecurityLogRoom
                             /\ securityLog' = Append(securityLog,
                                    SecurityEntry(u, post.user_id, change.event_type))
                        ELSE UNCHANGED securityLog
                     /\ response' = Reply("admin_user_management", method, u, 0, 302, "update")
       ELSE /\ response' = Reply("admin_user_management", method, u, 0, 200, "none")
            /\ UNCHANGED <<users, securityLog>>
    /\ UNCHANGED <<profiles, reports, chatMessages, userKeys, caseNotes, adminAlerts,
                   systemLog, clock, emotionRun, session, inflight, formResult, wsVars>>

\* ------------------------------------------------- administrator creation
FormResult(form, valid, errors, commit, instance, pk) ==
    [form |-> form, valid |-> valid, errors |-> errors, commit |-> commit,
     instance |-> instance, pk |-> pk]

NoAccount == Account("", NoEmail, FALSE, FALSE)

NoFormResult == FormResult("", FALSE, {}, FALSE, NoAccount, NoUser)

\* AdminCreationForm and the alias that inherits everything from it
AdminFormClasses == {"AdminCreationForm", "SubAdminCreationForm"}

\* AdminCreationForm.clean_email: the value the field keeps, and whether an
\* account with this address, compared by email__iexact, exists
clean_email(email) == EmailStrip(email)

email_taken(email) == \E t \in UserIds : iexact(users[t].email, clean_email(email))

\* form.errors of a bound AdminCreationForm: the fields that failed
AdminCreationFormErrors(post) ==
    {f \in {"username", "email", "password2"} :
        \/ f = "username" /\ (post.username = "" \/ post.username \in Usernames)
        \/ f = "email" /\ (post.email = NoEmail \/ email_taken(post.email))
        \/ f = "password2" /\ ~post.passwords_ok}

\* AdminCreationForm.save: the instance it returns
AdminCreationForm_save_staff_only(post, commit) ==
    IF commit
    THEN Account(post.username, normalize_email(clean_email(post.email)), TRUE, TRUE)
    ELSE Account(post.username, clean_email(post.email), TRUE, FALSE)

AdminCreationForm_save(post, commit) ==
    IF commit
    THEN Account(post.username, normalize_email(clean_email(post.email)), TRUE, TRUE)
    ELSE Account(post.username, clean_email(post.email), TRUE, TRUE)

\* form = AdminCreationForm(data=post); if form.is_valid(): form.save(commit)
AdminCreationFormSubmit(form, post, commit) ==
    /\ request' = post
    /\ LET errors == AdminCreationFormErrors(post)
           user == AdminCreationForm_save(post, commit)
       IN  IF errors # {}
           THEN /\ formResult' = FormResult(form, FALSE, errors, commit, NoAccount, NoUser)
                /\ UNCHANGED users
           ELSE IF commit
           THEN /\ Len(users) < MaxUsers
                /\ users' = Append(users, user)
                /\ formResult' = FormResult(form, TRUE, {}, commit, user, Len(users) + 1)
           ELSE /\ formResult' = FormResult(form, TRUE, {}, commit, user, NoUser)
                /\ UNCHANGED users
    /\ UNCHANGED <<profiles, reports, chatMessages, userKeys, caseNotes, adminAlerts,
                   systemLog, clock, response, emotionRun, securityLog, session,
                   inflight, wsVars>>

\* ------------------------------------------------- requests that overlap
\* no request in flight
NoInflight == {}

\* a request between two of its statements: the view, the user, the Report
\* object it loaded
Held(view, method, u, r, row) ==
    [view |-> view, method |-> method, user |-> u, report |-> r, row |-> row]

Busy(u) == \E h \in inflight : h.user = u

\* claim_case up to get_object_or_404(Report, id=..., assigned_to__isnull=True)
ClaimLoad(u, method, r) ==
    /\ LoggedIn(u) /\ is_counselor(u) /\ ~Busy(u)
    /\ r \in ReportIds
    /\ IF reports[r].assigned_to # NoUser
       THEN /\ response' = Reply("claim_case", method, u, r, 404, "none")
            /\ UNCHANGED inflight
       ELSE /\ inflight' = inflight \cup {Held("claim_case", method, u, r, reports[r])}
            /\ UNCHANGED response
    /\ UNCHANGED <<users, profiles, reports, chatMessages, userKeys, caseNotes,
                   adminAlerts, systemLog, clock, emotionRun, securityLog, request,
                   session, formResult, wsVars>>

\* claim_case from the request.method test on: report.save() writes the
\* loaded object back, with the fields the view set
ClaimSave(h) ==
    /\ h \in inflight /\ h.view = "claim_case"
    /\ inflight' = inflight \ {h}
    /\ IF h.method = "POST"
       THEN /\ LogRoom
            /\ reports' = [reports EXCEPT ![h.report] =
                  [h.row EXCEPT !.assigned_to = h.user, !.status = UNDER_REVIEW,
                                !.assigned_at = clock, !.resolved_at = NoTime]]
            /\ systemLog' = log_edit(systemLog, h.user, h.report)
            /\ response' = Reply("claim_case", h.method, h.user, h.report, 302,
                                 "claim_case")
       ELSE /\ response' = Reply("claim_case", h.method, h.user, h.report, 302, "none")
            /\ UNCHANGED <<reports, systemLog>>
    /\ UNCHANGED <<users, profiles, chatMessages, userKeys, caseNotes, adminAlerts,
                   clock, emotionRun, securityLog, request, session, formResult, wsVars>>

\* the message the overlapping requests post
RaceText == <<"hello">>

\* report_messages (POST, valid form) up to ChatMessage.create
StudentMessageCreate(u, r) ==
    /\ LoggedIn(u) /\ ~users[u].is_staff /\ ~Busy(u)
    /\ r \in ReportIds
    /\ reports[r].reporter = u /\ reports[r].assigned_to # NoUser
    /\ Len(chatMessages) < MaxMessages
    /\ LET rep == reports[r]
           history == SentBy(chatMessages, r, u, 1)
           k0 == IF history # <<>> THEN UserKey_get_or_create(userKeys, u)
                 ELSE userKeys
           insight == analyze_emotion(RaceText, PriorContext(k0, chatMessages, r, u),
                                      0, 0)
           k2 == UserKey_get_or_create(UserKey_get_or_create(k0, u), rep.assigned_to)
       IN  /\ userKeys' = k2
           /\ chatMessages' = Append(chatMessages,
                 NewChatMessage(k2, r, u, rep.assigned_to, RaceText,
                                insight.label, insight.risk_level))
           /\ inflight' = inflight \cup {Held("report_messages", "POST", u, r, rep)}
    /\ UNCHANGED <<users, profiles, reports, caseNotes, adminAlerts, systemLog, clock,
                   response, emotionRun, securityLog, request, session, formResult,
                   wsVars>>

\* report_messages from Report.objects.filter(pk=...).update(...) on
StudentMessageUpdate(h) ==
    /\ h \in inflight /\ h.view = "report_messages"
    /\ inflight' = inflight \ {h}
    /\ reports' = [reports EXCEPT ![h.report].awaiting_response = TRUE]
    /\ NotifyRoom(notified_group(h.row, users[h.user]))
    /\ sockets' = notify_counselor_new_message(h.row, users[h.user], h.report)
    /\ response' = Reply("report_messages", "POST", h.user, h.report, 302, "send_msg")
    /\ UNCHANGED <<users, profiles, chatMessages, userKeys, caseNotes, adminAlerts,
                   systemLog, clock, emotionRun, securityLog, request, session,
                   formResult, channelGroups>>

\* case_detail (POST send_msg, valid form) up to ChatMessage.create
CounselorMessageCreate(u, r) ==
    /\ LoggedIn(u) /\ is_counselor(u) /\ ~Busy(u)
    /\ r \in ReportIds
    /\ IsOwner(reports[r], u) /\ reports[r].reporter # NoUser
    /\ Len(chatMessages) < MaxMessages
    /\ LET rep == reports[r]
           k2 == UserKey_get_or_create(UserKey_get_or_create(userKeys, u), rep.reporter)
       IN  /\ userKeys' = k2
           /\ chatMessages' = Append(chatMessages,
                 NewChatMessage(k2, r, u, rep.reporter, RaceText, "neutral", "normal"))
           /\ inflight' = inflight \cup {Held("case_detail", "POST", u, r, rep)}
    /\ UNCHANGED <<users, profiles, reports, caseNotes, adminAlerts, systemLog, clock,
                   response, emotionRun, securityLog, request, session, formResult,
                   wsVars>>

\* case_detail (send_msg) from Report.objects.filter(pk=...).update(...) on
CounselorMessageUpdate(h) ==
    /\ h \in inflight /\ h.view = "case_detail"
    /\ LogRoom
    /\ inflight' = inflight \ {h}
    /\ reports' = [reports EXCEPT ![h.report].awaiting_response = FALSE]
    /\ systemLog' = log_edit(systemLog, h.user, h.report)
    /\ response' = Reply("case_detail", "POST", h.user, h.report, 302, "send_msg")
    /\ UNCHANGED <<users, profiles, chatMessages, userKeys, caseNotes, adminAlerts,
                   clock, emotionRun, securityLog, request, session, formResult, wsVars>>

\* ---------------------------------------------------------------- sessions
\* the session of one browser: the user its _auth_user_id names, the
\* last_activity_ts the middleware keeps in it, whether login_view marked it
\* to end with the browser, the expire_date of its row (NoTime: no row), and
\* the keys admin_impersonate_user keeps in it (NoUser, "", FALSE, NoTime: the
\* key is not in the session)
NoSession ==
    [user |-> NoUser, last_activity_ts |-> NoTime, browser_close |-> FALSE,
     expire_date |-> NoTime,
     impersonator_id |-> NoUser, impersonator_name |-> "",
     impersonator_backend |-> "", is_impersonating |-> FALSE,
     impersonation_started_at |-> NoTime]

SESSION_COOKIE_AGE == AUTO_LOGOUT_TIMEOUT

\* the session a request arrives with: a row is found while its expire_date
\* is in the future
LoadSession(now) == IF session.expire_date > now THEN session ELSE NoSession

\* SESSION_SAVE_EVERY_REQUEST: the response saves a session that holds
\* anything, for SESSION_COOKIE_AGE more seconds; an empty one is dropped
SaveSession(s, now) ==
    IF s.user = NoUser /\ s.last_activity_ts = NoTime
    THEN NoSession
    ELSE [s EXCEPT !.expire_date = now + SESSION_COOKIE_AGE]

LOGIN_SUCCESS == "LOGIN_SUCCESS"
LOGIN_FAILURE == "LOGIN_FAILURE"
LOGOUT == "LOGOUT"

\* a redirect to the URL named `to`, answered by `view` at time `now`
Redirect(view, method, u, to, now) ==
    [Reply(view, method, u, 0, 302, to) EXCEPT !.at = now]

Render(view, method, u, now) ==
    [Reply(view, method, u, 0, 200, "none") EXCEPT !.at = now]

\* django.contrib.auth.authenticate with the ModelBackend: the account, if
\* the password is right and the account is active
authenticate(u, password_ok) ==
    IF u \in UserIds /\ password_ok /\ users[u].is_active THEN u ELSE NoUser

\* django.contrib.auth.login: another user's session is flushed, the
\* session of the same user or of nobody keeps its data
login(s, u) ==
    IF s.user \notin {NoUser, u} THEN [NoSession EXCEPT !.user = u]
                                 ELSE [s EXCEPT !.user = u]

\* login_view: where a user who signed in is sent
PostLoginDestination(row) == IF row.is_staff THEN "admin_dashboard" ELSE "index"

\* user_portal/views.py login_view, served with session s at time now and
\* answered at time saved
LoginViewOn(s, now, saved, u, method, password_ok, remember_me) ==
    IF method = "POST" /\ authenticate(u, password_ok) # NoUser
    THEN /\ SecurityLogRoom
         /\ securityLog' = Append(securityLog, SecurityEntry(u, u, LOGIN_SUCCESS))
         /\ session' = SaveSession([login(s, u) EXCEPT !.browser_close = ~remember_me],
                                   saved)
         /\ response' = Redirect("login_view", method, u,
                                 PostLoginDestination(users[u]), now)
    ELSE IF method = "POST"
    THEN /\ SecurityLogRoom
         /\ securityLog' = Append(securityLog,
                                  SecurityEntry(NoUser, NoUser, LOGIN_FAILURE))
         /\ session' = SaveSession(s, saved)
         /\ response' = Render("login_view", method, s.user, now)
    ELSE /\ session' = SaveSession(s, saved)
         /\ response' = Render("login_view", method, s.user, now)
         /\ UNCHANGED securityLog

\* login_view on its own: the request of a browser that holds `session`
LoginView(u, method, password_ok, remember_me) ==
    /\ LoginViewOn(session, clock, clock, u, method, password_ok, remember_me)
    /\ UNCHANGED <<users, profiles, reports, chatMessages, userKeys, caseNotes,
                   adminAlerts, systemLog, clock, emotionRun, request, inflight,
                   formResult, wsVars>>

\* user_portal/views.py logout_view: logout() sends user_logged_out, which
\* log_logout records, and flushes the session
LogoutViewOn(s, now) ==
    /\ SecurityLogRoom
    /\ securityLog' = Append(securityLog, SecurityEntry(s.user, s.user, LOGOUT))
    /\ session' = NoSession
    /\ response' = Redirect("logout_view", "GET", s.user, "index", now)

\* settings.MIDDLEWARE, the entries the session passes through, outermost first
MIDDLEWARE ==
    << "SessionMiddleware", "AuthenticationMiddleware", "AutoLogoutMiddleware",
       "OTPMiddleware", "MessageMiddleware" >>

Position(name) == CHOOSE i \in 1..Len(MIDDLEWARE) : MIDDLEWARE[i] = name

\* request._messages exists once MessageMiddleware has seen the request
MessagesReadyAlways(name) == TRUE

MessagesReady(name) == Position("MessageMiddleware") < Position(name)

\* a page that needs no login and changes nothing
IndexView(s, now, saved) ==
    /\ session' = SaveSession(s, saved)
    /\ response' = Render("index", "GET", s.user, now)
    /\ UNCHANGED securityLog

SessionViews == {"index", "login_view", "logout_view"}

\* core/middleware.py AutoLogoutMiddleware.__call__ around the view the URL
\* names; the request arrives `wait` seconds after the last response and is
\* answered `took` seconds later
AutoLogoutMiddleware(view, wait, took, u, method, password_ok, remember_me) ==
    LET now == clock + wait
        loaded == LoadSession(now)
    IN  /\ now + took <= MaxClock
        /\ clock' = now + took
        /\ IF /\ loaded.user # NoUser
              /\ loaded.last_activity_ts # NoTime
              /\ now - loaded.last_activity_ts > AUTO_LOGOUT_TIMEOUT
           THEN /\ SecurityLogRoom
                /\ securityLog' = Append(securityLog,
                       SecurityEntry(loaded.user, loaded.user, LOGOUT))
                /\ session' = NoSession
                /\ response' =
                      IF MessagesReady("AutoLogoutMiddleware")
                      THEN Redirect("AutoLogoutMiddleware", method, loaded.user,
                                    "index", now)
                      ELSE [Reply("AutoLogoutMiddleware", method, loaded.user, 0, 500,
                                  "MessageFailure") EXCEPT !.at = now]
           ELSE LET s == [loaded EXCEPT !.last_activity_ts =
                              IF loaded.user # NoUser THEN now ELSE NoTime]
                IN  CASE view = "index" -> IndexView(s, now, clock')
                      [] view = "logout_view" -> LogoutViewOn(s, now)
                      [] view = "login_view" ->
                            LoginViewOn(s, now, clock', u, method, password_ok,
                                        remember_me)
        /\ UNCHANGED <<users, profiles, reports, chatMessages, userKeys, caseNotes,
                       adminAlerts, systemLog, emotionRun, request, inflight,
                       formResult, wsVars>>

\* assign_counselor up to the sort: the profiles are collected, the
\* candidates built from the workloads found and the first one chosen
AssignChoose(r) ==
    /\ r \in ReportIds
    /\ ~\E h \in inflight : h.view = "assign_counselor" /\ h.report = r
    /\ IF reports[r].assigned_to # NoUser
       THEN /\ response' = Reply("assign_counselor", "CALL", NoUser, r, 0, "none")
            /\ UNCHANGED <<profiles, inflight>>
       ELSE LET profs == collect_staff_profiles(profiles)
                cands == build_candidates(profs, reports[r])
            IN  /\ profiles' = profs
                /\ IF cands = {}
                   THEN /\ response' = Reply("assign_counselor", "CALL", NoUser, r, 0,
                                             "none")
                        /\ UNCHANGED inflight
                   ELSE /\ inflight' = inflight \cup
                              {Held("assign_counselor", "CALL",
                                    chosen_candidate(profs, reports[r], cands), r,
                                    reports[r])}
                        /\ UNCHANGED response
    /\ UNCHANGED <<users, reports, chatMessages, userKeys, caseNotes, adminAlerts,
                   systemLog, clock, emotionRun, securityLog, request, session,
                   formResult, wsVars>>

\* assign_counselor from `with transaction.atomic()` on: the assignee is read
\* again, and the chosen counselor stored if there is none
AssignSave(h) ==
    /\ h \in inflight /\ h.view = "assign_counselor"
    /\ inflight' = inflight \ {h}
    /\ IF reports[h.report].assigned_to # NoUser
       THEN /\ response' = Reply("assign_counselor", "CALL", NoUser, h.report, 0, "none")
            /\ UNCHANGED <<reports, profiles, sockets>>
       ELSE /\ reports' = [reports EXCEPT ![h.report] =
                  [@ EXCEPT !.assigned_to = h.user, !.status = UNDER_REVIEW]]
            /\ profiles' = [profiles EXCEPT ![h.user].last_auto_assigned_at = clock]
            /\ NotifyRoom(GroupName(h.user))
            /\ sockets' = notify_assignment(h.report, h.user)
            /\ response' = Reply("assign_counselor", "CALL", h.user, h.report, 0,
                                 "assigned")
    /\ UNCHANGED <<users, chatMessages, userKeys, caseNotes, adminAlerts, systemLog,
                   clock, emotionRun, securityLog, request, session, formResult,
                   channelGroups>>

\* ------------------------------------------------------------ impersonation
ModelBackend == "django.contrib.auth.backends.ModelBackend"

\* user.get_full_name() or user.get_username(): the accounts carry no names
DisplayName(row) == row.username

\* the q filter of admin_impersonate_user; the queries sent are whole
\* usernames or a text no account contains
icontains(row, q) == row.username = q

\* admin_impersonate_user: the active accounts other than the requester that
\* the search text matches
candidate_queryset(u, q) ==
    {t \in UserIds : users[t].is_active /\ t # u /\ (q = "" \/ icontains(users[t], q))}

\* ImpersonationForm.__init__: `user_queryset or User.objects.filter(
\* is_active=True)`, an empty queryset being false, without the current user
ImpersonationFormQueryset(current_user, user_queryset) ==
    (IF user_queryset # {} THEN user_queryset
                           ELSE {t \in UserIds : users[t].is_active})
        \ {current_user}

\* ImpersonationForm.is_valid: the choice is in the queryset, and clean_user
ImpersonationFormValid(current_user, user_queryset, target) ==
    /\ target \in ImpersonationFormQueryset(current_user, user_queryset)
    /\ target # current_user

impersonation_redirect_for(row) ==
    IF row.is_superuser THEN "admin_dashboard"
    ELSE IF row.is_staff THEN "counselor_dashboard"
    ELSE "dashboard"

\* the loop of request.session.pop(key, None) in admin_stop_impersonation
PopImpersonationKeys(s) ==
    [s EXCEPT !.impersonator_id = NoUser, !.impersonator_name = "",
              !.impersonator_backend = "", !.is_impersonating = FALSE,
              !.impersonation_started_at = NoTime]

\* the sign-ins the security log of this model has room for
LoginRoom == Len(securityLog) < MaxLogins

\* admin_portal/views.py admin_impersonate_user, requested by the browser
\* that holds `session`
AdminImpersonateUser(method, q, target) ==
    LET u == session.user
        ok == u # NoUser /\ users[u].is_superuser
    IN  /\ IF ~ok
           THEN /\ response' = Redirect("admin_impersonate_user", method, u,
                                        "login", clock)
                /\ session' = SaveSession(session, clock)
                /\ UNCHANGED securityLog
           ELSE IF /\ method = "POST"
                   /\ ImpersonationFormValid(u, candidate_queryset(u, q), target)
           THEN /\ LoginRoom
                /\ securityLog' = Append(securityLog,
                                         SecurityEntry(target, target, LOGIN_SUCCESS))
                /\ session' = SaveSession(
                       [login(session, target) EXCEPT
                            !.impersonator_id = u,
                            !.impersonator_name = DisplayName(users[u]),
                            !.impersonator_backend = ModelBackend,
                            !.is_impersonating = TRUE,
                            !.impersonation_started_at = clock],
                       clock)
                /\ response' = Redirect("admin_impersonate_user", method, u,
                                        impersonation_redirect_for(users[target]),
                                        clock)
           ELSE /\ response' = Render("admin_impersonate_user", method, u, clock)
                /\ session' = SaveSession(session, clock)
                /\ UNCHANGED securityLog
        /\ UNCHANGED <<users, profiles, reports, chatMessages, userKeys, caseNotes,
                       adminAlerts, systemLog, clock, emotionRun, request, inflight,
                       formResult, wsVars>>

\* admin_portal/views.py admin_stop_impersonation
AdminStopImpersonation(method) ==
    LET u == session.user
        impersonator_id == session.impersonator_id
        view == "admin_stop_impersonation"
    IN  /\ IF u = NoUser
           THEN /\ response' = Redirect(view, method, u, "login", clock)
                /\ session' = SaveSession(session, clock)
                /\ UNCHANGED securityLog
           ELSE IF method # "POST"
           THEN /\ response' = [Reply(view, method, u, 0, 405, "none")
                                    EXCEPT !.at = clock]
                /\ session' = SaveSession(session, clock)
                /\ UNCHANGED securityLog
           ELSE IF impersonator_id = NoUser
           THEN /\ response' = Redirect(view, method, u, "admin_profile", clock)
                /\ session' = SaveSession(session, clock)
                /\ UNCHANGED securityLog
           ELSE IF impersonator_id \notin UserIds
           THEN /\ response' = Redirect(view, method, u, "account_login", clock)
                /\ session' = SaveSession(PopImpersonationKeys(session), clock)
                /\ UNCHANGED securityLog
           ELSE /\ LoginRoom
                /\ securityLog' = Append(securityLog,
                       SecurityEntry(impersonator_id, impersonator_id, LOGIN_SUCCESS))
                /\ session' = SaveSession(
                       PopImpersonationKeys(login(session, impersonator_id)), clock)
                /\ response' = Redirect(view, method, u, "admin_profile", clock)
        /\ UNCHANGED <<users, profiles, reports, chatMessages, userKeys, caseNotes,
                       adminAlerts, systemLog, clock, emotionRun, request, inflight,
                       formResult, wsVars>>

\* ---------------------------------------------------------- account removal
\* what the removal of account t does to the rows that refer to it: the
\* on_delete of each ForeignKey / OneToOneField to the user model
CascadeRows(rows, field, t) ==
    LET Kept(row) == row[field] # t IN SelectSeq(rows, Kept)

SetNullRows(rows, field, t) ==
    [i \in DOMAIN rows |->
        IF rows[i][field] = t THEN [rows[i] EXCEPT ![field] = NoUser] ELSE rows[i]]

\* the delete view urls.py mounts with admin.site.urls for the user model:
\* open to an active staff account that holds the delete permission, which a
\* superuser does
UserAdminDelete(u, t) ==
    /\ u \in UserIds /\ t \in UserIds
    /\ IF ~(users[u].is_active /\ users[u].is_staff /\ users[u].is_superuser)
       THEN /\ response' = Reply("admin:auth_user_delete", "POST", u, 0, 403, "none")
            /\ UNCHANGED <<users, profiles, reports, chatMessages, userKeys,
                           caseNotes, adminAlerts, systemLog, securityLog>>
       ELSE /\ users' = [users EXCEPT ![t] = RemovedAccount]
            /\ profiles' = [p \in DOMAIN profiles |->
                               IF p = t THEN NoProfile ELSE profiles[p]]
            /\ userKeys' = [k \in DOMAIN userKeys |->
                               IF k = t THEN NoKey ELSE userKeys[k]]
            /\ reports' = SetNullRows(SetNullRows(reports, "reporter", t),
                                      "assigned_to", t)
            /\ chatMessages' = CascadeRows(CascadeRows(chatMessages, "sender", t),
                                           "recipient", t)
            /\ caseNotes' = CascadeRows(caseNotes, "counselor", t)
            /\ adminAlerts' = CascadeRows(adminAlerts, "admin", t)
            /\ systemLog' = CascadeRows(systemLog, "user", t)
            /\ securityLog' = SetNullRows(SetNullRows(securityLog, "actor", t),
                                          "target_user", t)
            /\ response' = Reply("admin:auth_user_delete", "POST", u, 0, 302, "deleted")
    /\ UNCHANGED <<clock, emotionRun, request, session, inflight, formResult, wsVars>>

\* ----------------------------------------------------------- specifications
InitUsers ==
    [u \in Users |->
        [is_staff |-> u # Student, is_active |-> TRUE, is_superuser |-> u = Admin]]

InitCommon ==
    /\ chatMessages = <<>>
    /\ userKeys = [u \in Users |-> NoKey]
    /\ caseNotes = <<>>
    /\ adminAlerts = <<>>
    /\ systemLog = <<>>
    /\ clock = NoTime + 2
    /\ response = Reply("init", "", NoUser, 0, 0, "none")
    /\ securityLog = <<>>
    /\ request = NoRequest
    /\ session = NoSession
    /\ inflight = NoInflight
    /\ formResult = NoFormResult
    /\ channelGroups = {}
    /\ sockets = <<>>

\* the application after deployment: a student, a counselor, an administrator
Init ==
    /\ InitCommon
    /\ users = InitUsers
    /\ profiles = [u \in Users |-> NoProfile]
    /\ reports = <<>>
    /\ emotionRun = NoEmotionRun

Methods == {"GET", "POST"}

\* the POSTs to case_detail that name one form, and the one that names none
SendForms ==
    {[NoForm EXCEPT !.send_msg = TRUE, !.message = m, !.attachment = a] :
        m \in {<<>>, <<WS, "hello">>, <<"essay">>}, a \in BOOLEAN}
NoteForms == {[NoForm EXCEPT !.add_note = TRUE, !.note_valid = v] : v \in BOOLEAN}
ResolveForm == [NoForm EXCEPT !.resolve_case = TRUE]
PostedForms == SendForms \cup NoteForms \cup {ResolveForm, NoForm}

StudentForms ==
    {[message |-> m, attachment |-> FALSE] : m \in {<<>>, <<"worried", WS>>, <<"essay">>}}

\* case work: students report and write, counselors claim, read, note, answer
\* and resolve, the administrator reassigns among the staff the form offers
Next ==
    \/ \E u \in Users, anon \in BOOLEAN : SubmitReport(u, anon, "other")
    \/ \E u \in Users, m \in Methods, r \in ReportIds : ClaimCase(u, m, r)
    \/ \E u \in Users, r \in ReportIds : CaseDetail(u, "GET", r, NoForm)
    \/ \E u \in Users, r \in ReportIds, f \in PostedForms : CaseDetail(u, "POST", r, f)
    \/ \E u \in Users, m \in Methods, r \in ReportIds, f \in StudentForms :
          ReportMessages(u, m, r, f, 0, 0)
    \/ \E u \in Users, r \in ReportIds, a \in StaffIds \cup {NoUser} :
          AdminCaseAssignment(u, "POST", r, a, "")
    \/ \E u \in Users : Dashboard(u)

Spec == Init /\ [][Next]_vars

\* the life cycle of a report: every request that writes Report.status
NextLifecycle ==
    \/ \E u \in Users, anon \in BOOLEAN, t \in ReportTypes : SubmitReport(u, anon, t)
    \/ \E t \in ReportTypes : ReportAnonymous(t)
    \/ \E u \in Users, m \in Methods, r \in ReportIds : ClaimCase(u, m, r)
    \/ \E r \in ReportIds : AssignCounselor(r)
    \/ \E u \in Users, r \in ReportIds : CaseDetail(u, "POST", r, ResolveForm)
    \/ \E u \in Users, m \in Methods, r \in ReportIds, a \in Users \cup {NoUser},
          st \in PostedStatuses : AdminCaseAssignment(u, m, r, a, st)

SpecLifecycle == Init /\ [][NextLifecycle]_vars

\* assign_counselor as a function of the database: the accounts, profiles
\* and reports it finds are drawn from bounded sets
AssignProfiles ==
    [exists : {TRUE}, specialization : {"general", "emotional", "disciplinary"},
     max_active_cases : {1, 2}, auto_assign_enabled : BOOLEAN,
     last_auto_assigned_at : {NoTime, NoTime + 1}]

\* the reports found: the first of any kind and state, the others adding to
\* the workloads or waiting unassigned
AssignReports(r) ==
    {q \in [reporter : {NoUser},
            incident_type : IF r = 1 THEN {"bullying", "harassment", "other"}
                            ELSE {"other"},
            status : {PENDING, RESOLVED}, assigned_to : {NoUser, Counselor, Admin},
            assigned_at : {NoTime}, resolved_at : {NoTime}, awaiting_response : {TRUE}] :
        r = 1 \/ q.assigned_to # NoUser \/ q.status = PENDING}

RECURSIVE Backlogs(_)
Backlogs(n) ==
    IF n = 0 THEN {<<>>}
    ELSE {Append(q, x) : q \in Backlogs(n - 1), x \in AssignReports(n)}

InitAssign ==
    /\ InitCommon
    /\ emotionRun = NoEmotionRun
    /\ \E staff \in BOOLEAN, active \in BOOLEAN :
          /\ ~(staff /\ ~active)
          /\ users = [InitUsers EXCEPT ![Student].is_staff = staff,
                                       ![Counselor].is_active = active]
    /\ \E p2 \in AssignProfiles,
          p3 \in {q \in AssignProfiles : q.auto_assign_enabled} \cup {NoProfile} :
          profiles = [u \in Users |-> IF u = Student THEN NoProfile
                                      ELSE IF u = Counselor THEN p2 ELSE p3]
    /\ reports \in Backlogs(MaxBacklog)

NextAssign == \E r \in ReportIds : AssignCounselor(r)

SpecAssign == InitAssign /\ [][NextAssign]_vars

\* assign_counselor calls that overlap with each other, with claim_case and
\* with the administrator's assignment, on a backlog of reports; the
\* counselor takes one or two cases at a time
InitAssignOverlap ==
    /\ InitCommon
    /\ emotionRun = NoEmotionRun
    /\ users = InitUsers
    /\ \E p2 \in {q \in AssignProfiles :
                    /\ q.specialization = "general" /\ q.auto_assign_enabled
                    /\ q.last_auto_assigned_at = NoTime} :
          profiles = [u \in Users |-> IF u = Counselor THEN p2 ELSE NoProfile]
    /\ reports \in {q \in Backlogs(MaxBacklog) :
                      \A r \in DOMAIN q : q[r].incident_type = "other"
                                          /\ q[r].assigned_to # Admin}

NextAssignOverlap ==
    \/ \E r \in ReportIds : AssignChoose(r)
    \/ \E h \in inflight : AssignSave(h)
    \/ \E u \in Users, r \in ReportIds : ClaimCase(u, "POST", r)
    \/ \E r \in ReportIds, a \in {Counselor, NoUser} :
          AdminCaseAssignment(Admin, "POST", r, a, "")

SpecAssignOverlap == InitAssignOverlap /\ [][NextAssignOverlap]_vars

\* analyze_emotion as a function of its inputs
InitEmotion ==
    /\ InitCommon
    /\ users = InitUsers
    /\ profiles = [u \in Users |-> NoProfile]
    /\ reports = <<>>
    /\ \E msg \in TypedTexts, ctx \in SeqsUpTo(ContextTexts, MaxContext),
          p \in Polarities, c \in CtxPolarities :
          emotionRun = [NoEmotionRun EXCEPT !.message = msg, !.context = ctx,
                                            !.polarity = p, !.ctxPolarity = c]

NextEmotion == AnalyzeEmotion

SpecEmotion == InitEmotion /\ [][NextEmotion]_vars


\* requests of several users served at once: each runs up to the statement
\* that writes its message or loads its report, and finishes later
NextOverlap ==
    \/ \E u \in Users : SubmitReport(u, FALSE, "other")
    \/ \E u \in Users, m \in Methods, r \in ReportIds : ClaimLoad(u, m, r)
    \/ \E h \in inflight : ClaimSave(h)
    \/ \E u \in Users, r \in ReportIds : StudentMessageCreate(u, r)
    \/ \E h \in inflight : StudentMessageUpdate(h)
    \/ \E u \in Users, r \in ReportIds : CounselorMessageCreate(u, r)
    \/ \E h \in inflight : CounselorMessageUpdate(h)

SpecOverlap == Init /\ [][NextOverlap]_vars

\* the accounts of a deployment with two administrators, one of them in the
\* super-administrator group, and the requests the account page receives
Plain(base) == Word(base, FALSE)

InitAccounts ==
    << Account("sam", Email(Plain("sam"), Plain("ex.org"), FALSE), FALSE, FALSE),
       Account("cara", Email(Plain("cara"), Plain("ex.org"), FALSE), TRUE, FALSE),
       Account("ada", Email(Plain("ada"), Plain("ex.org"), FALSE), TRUE, TRUE),
       [Account("root", Email(Plain("root"), Plain("ex.org"), FALSE), TRUE, TRUE)
            EXCEPT !.groups = {SUPER_ADMIN_GROUP_NAME}] >>

NewEmail == Email(Plain("dana"), Plain("ex.org"), FALSE)

CreatePosts ==
    {Post(ft, NoUser, "", "dana", NewEmail, TRUE) :
        ft \in {"create", "create_admin", "create_super_admin"}}
    \cup {Post("create", NoUser, "", "cara", NewEmail, TRUE),
          Post("create", NoUser, "", "dana", NoEmail, TRUE),
          Post("create", NoUser, "", "dana", NewEmail, FALSE)}

ActionPosts ==
    {Post("", t, a, "", NoEmail, FALSE) :
        t \in UserIds \cup {NoUser}, a \in {"approve", "revoke", "disable"}}

\* the accounts that send requests to the page: the administrators and, for
\* the accounts the page turns away, the student
Actors == {t \in UserIds : users[t].is_superuser} \cup {Student}

InitAccount ==
    /\ InitCommon
    /\ users = InitAccounts
    /\ profiles = [u \in Users |-> NoProfile]
    /\ reports = <<>>
    /\ emotionRun = NoEmotionRun

NextAccount ==
    \/ \E u \in Actors, post \in CreatePosts \cup ActionPosts :
          AdminUserManagement(u, "POST", post)
    \/ \E u \in Actors : AdminUserManagement(u, "GET", NoRequest)

SpecAccount == InitAccount /\ [][NextAccount]_vars

\* signing in while the administrators manage the staff flags
StaffPosts ==
    {Post("", t, a, "", NoEmail, FALSE) : t \in UserIds, a \in {"approve", "revoke"}}

NextLogin ==
    \/ \E u \in UserIds, post \in StaffPosts : AdminUserManagement(u, "POST", post)
    \/ \E u \in UserIds \cup {NoUser}, m \in Methods, ok \in BOOLEAN, rm \in BOOLEAN :
          LoginView(u, m, ok, rm)

SpecLogin == InitAccount /\ [][NextLogin]_vars

\* one browser: its requests pass the middleware, come a hundred seconds or
\* about five minutes after the last response and take one or three seconds
Durations == {1, 3}
Waits == {100, 297, 298, 300}

NextSession ==
    \/ \E wait \in Waits, took \in Durations :
          AutoLogoutMiddleware("index", wait, took, NoUser, "GET", FALSE, FALSE)
    \/ \E wait \in Waits, took \in Durations :
          AutoLogoutMiddleware("logout_view", wait, took, NoUser, "GET", FALSE, FALSE)
    \/ \E wait \in Waits, took \in Durations, u \in UserIds, ok \in BOOLEAN,
          rm \in BOOLEAN :
          AutoLogoutMiddleware("login_view", wait, took, u, "POST", ok, rm)

SpecSession == InitAccount /\ [][NextSession]_vars

\* the administrator creation form bound to the data a caller hands it
FormEmails ==
    {NoEmail, NewEmail,
     Email(Plain("dana"), Word("ex.org", TRUE), FALSE),
     Email(Word("dana", TRUE), Plain("ex.org"), TRUE),
     Email(Plain("ada"), Plain("ex.org"), FALSE),
     Email(Word("ada", TRUE), Word("ex.org", TRUE), FALSE)}

FormPosts ==
    {Post("", NoUser, "", n, e, ok) :
        n \in {"", "cara", "dana", "eve"}, e \in FormEmails, ok \in BOOLEAN}

NextForm ==
    \E form \in AdminFormClasses, post \in FormPosts, commit \in BOOLEAN :
        AdminCreationFormSubmit(form, post, commit)

SpecForm == InitAccount /\ [][NextForm]_vars

\* one browser in which an administrator has signed in through login_view,
\* and the impersonation requests it sends afterwards
InitImpersonate ==
    \E a \in {t \in DOMAIN InitAccounts : InitAccounts[t].is_superuser} :
        /\ chatMessages = <<>>
        /\ userKeys = [u \in Users |-> NoKey]
        /\ caseNotes = <<>>
        /\ adminAlerts = <<>>
        /\ systemLog = <<>>
        /\ clock = NoTime + 2
        /\ users = InitAccounts
        /\ profiles = [u \in Users |-> NoProfile]
        /\ reports = <<>>
        /\ emotionRun = NoEmotionRun
        /\ request = NoRequest
        /\ inflight = NoInflight
        /\ formResult = NoFormResult
        /\ channelGroups = {}
        /\ sockets = <<>>
        /\ securityLog = <<SecurityEntry(a, a, LOGIN_SUCCESS)>>
        /\ session = SaveSession([NoSession EXCEPT !.user = a], clock)
        /\ response = Redirect("login_view", "POST", a,
                               PostLoginDestination(InitAccounts[a]), clock)

Searches == {"", "sam", "zz"}

NextImpersonate ==
    \/ \E m \in Methods, q \in Searches, t \in UserIds \cup {NoUser} :
          AdminImpersonateUser(m, q, t)
    \/ \E m \in Methods : AdminStopImpersonation(m)

SpecImpersonate == InitImpersonate /\ [][NextImpersonate]_vars

\* the requests that write the audit trail, next to the administrators'
\* case assignment, user management and account removal
AuditPosts ==
    {Post("", Counselor, a, "", NoEmail, FALSE) : a \in {"approve", "revoke"}}
    \cup {Post("create", NoUser, "", "dana", NewEmail, TRUE)}

NextAudit ==
    \/ SubmitReport(Student, FALSE, "other")
    \/ \E u \in Users, r \in ReportIds : ClaimCase(u, "POST", r)
    \/ \E u \in Users, r \in ReportIds : CaseDetail(u, "GET", r, NoForm)
    \/ \E u \in Users, r \in ReportIds, f \in NoteForms \cup {ResolveForm} :
          CaseDetail(u, "POST", r, f)
    \/ \E r \in ReportIds, a \in {Counselor, NoUser} :
          AdminCaseAssignment(Admin, "POST", r, a, "")
    \/ \E post \in AuditPosts : AdminUserManagement(Admin, "POST", post)
    \/ \E u \in Users, t \in UserIds : UserAdminDelete(u, t)

SpecAudit == InitAccount /\ [][NextAudit]_vars

\* browsers that open and close the notification socket while a student
\* reports and writes and the case is assigned
NextNotify ==
    \/ \E u \in Users \cup {NoUser} : Connect(u)
    \/ \E c \in DOMAIN sockets : Disconnect(c)
    \/ \E u \in Users : SubmitReport(u, FALSE, "other")
    \/ \E r \in ReportIds : AssignCounselor(r)
    \/ \E r \in ReportIds, a \in StaffIds \cup {NoUser} :
          AdminCaseAssignment(Admin, "POST", r, a, "")
    \/ \E u \in Users, r \in ReportIds, f \in StudentForms :
          ReportMessages(u, "POST", r, f, 0, 0)

SpecNotify == Init /\ [][NextNotify]_vars

\* --------------------------------------------------------------- properties
\* some text handed to the analyze_emotion call recorded in emotionRun (the
\* message or one of the context messages) contains a phrase of the family
RunMentions(family) ==
    \/ MatchesAny(emotionRun.message, family)
    \/ \E i \in 1..Len(emotionRun.context) : MatchesAny(emotionRun.context[i], family)

\* C5: the risk level analyze_emotion returns is critical when the message or
\* a context message contains a self-harm phrase, whatever the polarity, or
\* the blended polarity is below -0.45; otherwise elevated when the blended
\* polarity is below -0.25 or the label is anxious or stressed; otherwise
\* normal.  It is always one of normal / elevated / critical.
C5_RiskLevelRule ==
    emotionRun.done =>
        /\ emotionRun.risk_level =
              IF RunMentions(CRITICAL_PATTERNS) \/ emotionRun.blended < -450
              THEN "critical"
              ELSE IF \/ emotionRun.blended < -250
                      \/ emotionRun.label \in {"anxious", "stressed"}
              THEN "elevated"
              ELSE "normal"
        /\ emotionRun.risk_level \in RiskLevelValues

\* a self-harm phrase in the context only, under a positive polarity, scored
\* critical
C5_Witness ==
    /\ emotionRun.done
    /\ ~MatchesAny(emotionRun.message, CRITICAL_PATTERNS)
    /\ RunMentions(CRITICAL_PATTERNS)
    /\ emotionRun.blended > 0
    /\ emotionRun.risk_level = "critical"

\* C6: the label analyze_emotion returns is that of the first keyword family
\* found in the context and message, in the order critical (stressed),
\* anxious, angry, stressed, calm; with no family found it is calm above a
\* blended polarity of 0.25, anxious below -0.2 and neutral otherwise.  It is
\* always an EmotionLabel value, so ChatMessage.create stores it as it is.
C6_LabelRule ==
    emotionRun.done =>
        /\ emotionRun.label =
              IF RunMentions(CRITICAL_PATTERNS) THEN "stressed"
              ELSE IF RunMentions(ANXIOUS_PATTERNS) THEN "anxious"
              ELSE IF RunMentions(ANGRY_PATTERNS) THEN "angry"
              ELSE IF RunMentions(STRESSED_PATTERNS) THEN "stressed"
              ELSE IF RunMentions(CALM_PATTERNS) THEN "calm"
              ELSE IF emotionRun.blended > 250 THEN "calm"
              ELSE IF emotionRun.blended < -200 THEN "anxious"
              ELSE "neutral"
        /\ emotionRun.label \in EmotionLabelValues
        /\ emotionRun.stored_label = emotionRun.label

\* an anxious and an angry keyword together, labelled anxious
C6_Witness ==
    /\ emotionRun.done
    /\ ~RunMentions(CRITICAL_PATTERNS)
    /\ RunMentions(ANXIOUS_PATTERNS)
    /\ RunMentions(ANGRY_PATTERNS)
    /\ emotionRun.label = "anxious"
    /\ emotionRun.stored_label = "anxious"

\* the profile assign_counselor finds for u: the stored one, or the default
\* one made for a staff member without a profile
ProfileOf(u) == IF profiles[u].exists THEN profiles[u] ELSE NewProfile

\* reports assigned to u and not resolved
Workload(u) ==
    Cardinality({q \in ReportIds :
        reports[q].assigned_to = u /\ reports[q].status # RESOLVED})

\* active staff with auto-assignment enabled and workload below capacity
Eligible ==
    {u \in Users :
        /\ users[u].is_active /\ users[u].is_staff
        /\ ProfileOf(u).auto_assign_enabled
        /\ Workload(u) < ProfileOf(u).max_active_cases}

RankFor(u, r) ==
    LET target == IF reports[r].incident_type \in {"bullying", "ragging"}
                  THEN "disciplinary"
                  ELSE IF reports[r].incident_type = "harassment" THEN "emotional"
                  ELSE "general"
    IN  IF ProfileOf(u).specialization = target THEN 0
        ELSE IF ProfileOf(u).specialization = "general" THEN 1
        ELSE 2

\* u comes before v in the order (rank, workload, last auto-assignment with
\* never before ever, user id)
Before(u, v, r) ==
    LET lu == ProfileOf(u).last_auto_assigned_at
        lv == ProfileOf(v).last_auto_assigned_at
    IN  \/ RankFor(u, r) < RankFor(v, r)
        \/ /\ RankFor(u, r) = RankFor(v, r)
           /\ \/ Workload(u) < Workload(v)
              \/ /\ Workload(u) = Workload(v)
                 /\ \/ lu = NoTime /\ lv # NoTime
                    \/ lu # NoTime /\ lv # NoTime /\ lu < lv
                    \/ lu = lv /\ u < v

\* the step is a call of assign_counselor on the unassigned report r
AssignCalledOn(r) ==
    /\ response'.view = "assign_counselor" /\ response'.report = r
    /\ reports[r].assigned_to = NoUser

\* C2: assign_counselor on an unassigned report with an eligible candidate
\* assigns it to the candidate first in the order (specialization rank,
\* workload, last auto-assignment, user id), sets the status to under_review
\* and stamps the chosen profile's last_auto_assigned_at.
C2_AssignsFirstInOrder ==
    [][\A r \in ReportIds :
          AssignCalledOn(r) /\ Eligible # {} =>
              \E u \in Eligible :
                  /\ \A v \in Eligible \ {u} : Before(u, v, r)
                  /\ reports'[r].assigned_to = u
                  /\ reports'[r].status = UNDER_REVIEW
                  /\ profiles'[u].exists
                  /\ profiles'[u].last_auto_assigned_at = clock]_vars

\* the administrator was chosen although the counselor, with the smaller user
\* id, was a candidate as well
C2_Witness ==
    /\ response.view = "assign_counselor" /\ response.did = "assigned"
    /\ response.user = Admin
    /\ reports[response.report].assigned_to = Admin
    /\ reports[response.report].status = UNDER_REVIEW
    /\ profiles[Admin].last_auto_assigned_at = clock
    /\ Counselor \in Eligible

\* C3: assign_counselor assigns a report only to an active staff member with
\* auto-assignment enabled and workload below max_active_cases; with no such
\* counselor the report stays as it is and no last_auto_assigned_at changes.
C3_OnlyEligibleChosen ==
    [][\A r \in ReportIds :
          /\ reports'[r].assigned_to # reports[r].assigned_to =>
                reports'[r].assigned_to \in Eligible
          /\ AssignCalledOn(r) /\ Eligible = {} =>
                /\ reports' = reports
                /\ \A u \in Users : profiles'[u].last_auto_assigned_at =
                                        profiles[u].last_auto_assigned_at]_vars

\* a call that left the report unassigned while a counselor with
\* auto-assignment enabled was at capacity
C3_Witness ==
    /\ response.view = "assign_counselor" /\ response.did = "none"
    /\ reports[response.report].assigned_to = NoUser
    /\ reports[response.report].status = PENDING
    /\ Eligible = {}
    /\ \E u \in Users :
          /\ users[u].is_active /\ users[u].is_staff
          /\ profiles[u].exists /\ profiles[u].auto_assign_enabled
          /\ Workload(u) = profiles[u].max_active_cases

\* C7: every stored report's status is one of pending, under_review and
\* resolved, whatever submit, claim_case, assign_counselor, resolve_case and
\* admin_case_assignment requests have been served.
C7_StatusIsAChoice ==
    \A r \in ReportIds : reports[r].status \in ReportStatusValues

\* the latest ChatMessage of report r was sent by u
LatestMessageFrom(r, u) ==
    \E i \in 1..Len(chatMessages) :
        /\ chatMessages[i].report = r /\ chatMessages[i].sender = u
        /\ \A j \in (i + 1)..Len(chatMessages) : chatMessages[j].report # r

\* C1: the dashboard lists the reports assigned to the viewer or to nobody,
\* each with the queue state closed if it is resolved, else new if it has no
\* assignee, else waiting_on_student if its latest message was sent by the
\* viewer, else assigned_to_me.
C1_QueueStateRule ==
    response.view = "dashboard" =>
        LET u == response.user
        IN  /\ DOMAIN response.queue =
                  {r \in ReportIds : reports[r].assigned_to \in {u, NoUser}}
            /\ \A r \in DOMAIN response.queue :
                  response.queue[r] =
                      IF reports[r].status = RESOLVED THEN "closed"
                      ELSE IF reports[r].assigned_to = NoUser THEN "new"
                      ELSE IF LatestMessageFrom(r, u) THEN "waiting_on_student"
                      ELSE "assigned_to_me"

\* a dashboard showing as closed a resolved report that has no assignee and
\* whose latest message is the viewer's
C1_Witness ==
    /\ response.view = "dashboard"
    /\ \E r \in DOMAIN response.queue :
          /\ response.queue[r] = "closed"
          /\ reports[r].assigned_to = NoUser
          /\ LatestMessageFrom(r, response.user)

\* C4: every stored ChatMessage decrypts, for its sender and for its
\* recipient, to the text handed to ChatMessage.create, each with the user's
\* own key pair, which is the one made at the first use.
C4_RoundTrip ==
    \A i \in 1..Len(chatMessages) :
        LET m == chatMessages[i]
        IN  \A u \in {m.sender, m.recipient} :
                /\ get_body_for(UserKey_get_or_create(userKeys, u), m, u) = m.body
                /\ userKeys[u] = 1
                /\ (IF u = m.sender THEN m.cipher_for_sender
                    ELSE m.cipher_for_recipient).key.owner = u

\* two messages of one sender, the second encrypted after the keys existed,
\* both readable by both sides
C4_Witness ==
    \E i, j \in 1..Len(chatMessages) :
        /\ i < j
        /\ chatMessages[i].sender = chatMessages[j].sender
        /\ chatMessages[j].body # <<>>
        /\ \A k \in {i, j} : \A u \in {chatMessages[k].sender, chatMessages[k].recipient} :
              get_body_for(UserKey_get_or_create(userKeys, u), chatMessages[k], u)
                  = chatMessages[k].body

\* the database tables
tables == <<users, profiles, reports, chatMessages, userKeys, caseNotes,
            adminAlerts, systemLog>>

\* C8: in case_detail a note, a resolution and a message to the student come
\* only from the report's assignee: a POST on an unassigned report creates no
\* CaseNote, ChatMessage or AdminAlert and leaves the report as it is, a
\* request for a report assigned to someone else is answered 404 and changes
\* nothing, and the counselor of every new CaseNote is the report's assignee.
C8_OnlyTheAssigneeActs ==
    [][/\ caseNotes' # caseNotes =>
             /\ response'.view = "case_detail"
             /\ reports[response'.report].assigned_to = response'.user
             /\ caseNotes' = Append(caseNotes, [report |-> response'.report,
                                                counselor |-> response'.user])
       /\ response'.view = "case_detail" =>
             LET u == response'.user
                 rep == reports[response'.report]
             IN  /\ rep.assigned_to \notin {u, NoUser} =>
                       response'.code = 404 /\ UNCHANGED tables
                 /\ rep.assigned_to = NoUser /\ response'.method = "POST" =>
                       /\ caseNotes' = caseNotes
                       /\ Len(chatMessages') = Len(chatMessages)
                       /\ adminAlerts' = adminAlerts
                       /\ reports' = reports
                 /\ \/ caseNotes' # caseNotes
                    \/ Len(chatMessages') # Len(chatMessages)
                    \/ adminAlerts' # adminAlerts
                    \/ reports' # reports
                    => rep.assigned_to = u]_vars

\* a note written by the assignee is stored and another counselor asking for
\* the case has been answered 404
C8_Witness ==
    /\ response.view = "case_detail" /\ response.code = 404
    /\ reports[response.report].assigned_to \notin {response.user, NoUser}
    /\ \E i \in 1..Len(caseNotes) :
          /\ caseNotes[i].report = response.report
          /\ caseNotes[i].counselor = reports[response.report].assigned_to

\* C9: a ChatMessage is created only for a report with a reporter and an
\* assignee, by report_messages from the reporter to the assignee or by
\* case_detail from the assignee to the reporter, and keeps its report,
\* sender and recipient afterwards.
C9_BetweenReporterAndAssignee ==
    [][/\ Len(chatMessages') >= Len(chatMessages)
       /\ \A i \in 1..Len(chatMessages) :
             /\ chatMessages'[i].report = chatMessages[i].report
             /\ chatMessages'[i].sender = chatMessages[i].sender
             /\ chatMessages'[i].recipient = chatMessages[i].recipient
       /\ Len(chatMessages') > Len(chatMessages) =>
             /\ Len(chatMessages') = Len(chatMessages) + 1
             /\ LET m == chatMessages'[Len(chatMessages')]
                    rep == reports[m.report]
                IN  /\ m.report = response'.report /\ m.sender = response'.user
                    /\ rep.reporter # NoUser /\ rep.assigned_to # NoUser
                    /\ \/ /\ response'.view = "report_messages"
                          /\ m.sender = rep.reporter /\ m.recipient = rep.assigned_to
                       \/ /\ response'.view = "case_detail"
                          /\ m.sender = rep.assigned_to /\ m.recipient = rep.reporter]_vars

\* a student message and a counselor answer on a report that has been
\* reassigned since
C9_Witness ==
    \E i, j \in 1..Len(chatMessages) :
        LET r == chatMessages[i].report
        IN  /\ chatMessages[j].report = r
            /\ chatMessages[i].sender = reports[r].reporter
            /\ chatMessages[j].recipient = reports[r].reporter
            /\ chatMessages[j].sender = chatMessages[i].recipient
            /\ reports[r].assigned_to \notin {NoUser, chatMessages[i].recipient}

\* what the request just served did on behalf of a counselor
Viewed ==
    /\ response'.view = "case_detail" /\ response'.method = "GET"
    /\ response'.code = 200
NoteAdded == Len(caseNotes') > Len(caseNotes)
MessageSent ==
    response'.view = "case_detail" /\ Len(chatMessages') > Len(chatMessages)
Resolved ==
    /\ response'.view = "case_detail" /\ response'.method = "POST"
    /\ \/ adminAlerts' # adminAlerts
       \/ /\ reports[response'.report].status # RESOLVED
          /\ reports'[response'.report].status = RESOLVED
Claimed ==
    /\ response'.view = "claim_case"
    /\ reports[response'.report].assigned_to = NoUser
    /\ reports'[response'.report].assigned_to = response'.user

\* C10: a GET of case_detail writes one VIEWED SystemLog entry, adding a
\* note, sending a message and claiming a case one EDITED entry, resolving a
\* case one CLOSED entry, each for the report and with the counselor as
\* user; a request doing none of these writes no entry.
C10_AuditComplete ==
    [][LET entry(action_type) ==
               [user |-> response'.user, action_type |-> action_type,
                object_id |-> response'.report]
       IN  IF Viewed THEN systemLog' = Append(systemLog, entry("VIEWED"))
           ELSE IF Resolved THEN systemLog' = Append(systemLog, entry("CLOSED"))
           ELSE IF NoteAdded \/ MessageSent \/ Claimed
                THEN systemLog' = Append(systemLog, entry("EDITED"))
           ELSE systemLog' = systemLog]_vars

\* a case viewed and then resolved by its counselor
C10_Witness ==
    /\ response.view = "case_detail" /\ response.did = "resolve_case"
    /\ Len(systemLog) = 2
    /\ systemLog[1] = [user |-> response.user, action_type |-> "VIEWED",
                       object_id |-> response.report]
    /\ systemLog[2] = [user |-> response.user, action_type |-> "CLOSED",
                       object_id |-> response.report]

\* ------------------------------------------------------------ C11
\* the accounts a step creates or whose is_staff flag it changes
StaffChanged ==
    {t \in DOMAIN users' : t \notin UserIds \/ users'[t].is_staff # users[t].is_staff}

\* C11: every request to admin_user_management that changes a user's is_staff
\* flag (approve sets it, revoke clears it) or creates a counselor account
\* appends exactly one SecurityLog entry, whose actor is the acting
\* administrator, whose target_user is the affected account and whose event
\* type is PERMISSION_GRANTED for approve and create and PERMISSION_REVOKED
\* for revoke; a request that changes no is_staff flag writes no entry and
\* leaves every account as it was.
C11_OneEntryPerChange ==
    [][response'.view = "admin_user_management" =>
          /\ Cardinality(StaffChanged) <= 1
          /\ \A t \in StaffChanged :
                securityLog' = Append(securityLog,
                    SecurityEntry(response'.user, t,
                        IF users'[t].is_staff THEN PERMISSION_GRANTED
                                              ELSE PERMISSION_REVOKED))
          /\ StaffChanged = {} => securityLog' = securityLog /\ users' = users
          /\ response'.did = "update" =>
                /\ request'.action = "approve" => users'[request'.user_id].is_staff
                /\ request'.action = "revoke" => ~users'[request'.user_id].is_staff
                /\ request'.action \notin {"approve", "revoke"} => StaffChanged = {}
          /\ response'.did = "create" =>
                /\ StaffChanged = {Len(users')}
                /\ users'[Len(users')].is_staff
    ]_vars

C11_Witness ==
    /\ response.view = "admin_user_management" /\ response.did = "update"
    /\ request.action = "revoke"
    /\ Len(securityLog) = 2
    /\ securityLog[1].event_type = PERMISSION_GRANTED
    /\ securityLog[1].target_user = Len(users) /\ Len(users) > Len(InitAccounts)
    /\ securityLog[2] = SecurityEntry(response.user, request.user_id, PERMISSION_REVOKED)

\* ------------------------------------------------------- C12, C13, C14
Administrators == {t \in UserIds : users[t].is_superuser}

is_super_admin(t) == SUPER_ADMIN_GROUP_NAME \in users[t].groups

\* the POST the step served came from account u
PostedBy(u) ==
    /\ response'.view = "admin_user_management" /\ response'.method = "POST"
    /\ response'.user = u

\* the POST is aimed at an administrator account other than the sender's
AimedAtAnotherAdministrator ==
    /\ request'.form_type = ""
    /\ request'.user_id \in Administrators \ {response'.user}

\* the POST names a username and an email no account has, and good passwords
NamesNewAccount ==
    /\ request'.username # "" /\ request'.username \notin Usernames
    /\ request'.email # NoEmail
    /\ \A t \in UserIds : ~iexact(users[t].email, EmailStrip(request'.email))
    /\ request'.passwords_ok

AdminFlags(row) == <<row.is_active, row.is_staff, row.is_superuser>>

\* C12: for a superuser outside the super-administrator group, no POST to
\* admin_user_management that asks for an administrator account
\* (create_admin, create_super_admin) or is aimed at another administrator
\* (disable, revoke, ...) creates a user or changes the is_active, is_staff
\* or is_superuser flag of any administrator account.
C12_OnlySuperAdminsManageAdmins ==
    [][\A u \in Administrators :
          (/\ PostedBy(u) /\ ~is_super_admin(u)
           /\ \/ request'.form_type \in {"create_admin", "create_super_admin"}
              \/ AimedAtAnotherAdministrator)
          => /\ DOMAIN users' = UserIds
             /\ \A t \in Administrators : AdminFlags(users'[t]) = AdminFlags(users[t])
    ]_vars

\* C13: when a super administrator POSTs form_type=create_admin with a valid,
\* unused username and email, an administrator account of that name exists
\* afterwards and the response redirects back to admin_user_management.
C13_SuperAdminCreatesAdmin ==
    [][\A u \in Administrators :
          (/\ PostedBy(u) /\ is_super_admin(u)
           /\ request'.form_type = "create_admin" /\ NamesNewAccount)
          => /\ response'.code = 302
             /\ \E t \in DOMAIN users' :
                   users'[t].username = request'.username /\ users'[t].is_superuser
    ]_vars

\* C14: the account a super administrator's create_super_admin POST names
\* exists afterwards as a member of the super-administrator group, and the
\* 'disable' action of any member of that group on another administrator
\* sets that account's is_active to False.
C14_PrivilegesTransfer ==
    [][\A u \in Administrators :
          /\ (/\ PostedBy(u) /\ is_super_admin(u)
              /\ request'.form_type = "create_super_admin" /\ NamesNewAccount)
             => \E t \in DOMAIN users' \ UserIds :
                   /\ users'[t].username = request'.username
                   /\ SUPER_ADMIN_GROUP_NAME \in users'[t].groups
          /\ (/\ PostedBy(u) /\ is_super_admin(u)
              /\ AimedAtAnotherAdministrator /\ request'.action = "disable")
             => ~users'[request'.user_id].is_active
    ]_vars

\* ------------------------------------------------------------ C15, C16
AllAdminFlags(row) == row.is_superuser /\ row.is_staff /\ row.is_active

Persisted == formResult.pk \in UserIds /\ users[formResult.pk] = formResult.instance

SameLetters(a, b) == a.local.base = b.local.base /\ a.domain.base = b.domain.base

\* C16: AdminCreationForm rejects, with an error on the email field and
\* without creating any user, every submission whose email equals an existing
\* user's email compared case-insensitively; so administrator creation never
\* leaves two users whose emails consist of the same letters.
C16_EmailUniqueIgnoringCase ==
    [][formResult'.form # "" =>
          /\ (\E t \in UserIds : SameLetters(users[t].email, request'.email))
             => /\ ~formResult'.valid /\ "email" \in formResult'.errors
                /\ users' = users
          /\ \A t1, t2 \in DOMAIN users' :
                t1 # t2 => ~SameLetters(users'[t1].email, users'[t2].email)
    ]_vars

C16_Witness ==
    /\ formResult.form # "" /\ ~formResult.valid
    /\ formResult.errors = {"email"}
    /\ request.email.local.caps
    /\ \E t \in UserIds : SameLetters(users[t].email, request.email)
                          /\ users[t].email # request.email

\* ------------------------------------------------------------ C17
\* C17: the post-login destination of every superuser is admin_dashboard:
\* a superuser who signs in is redirected to the administrator dashboard.
C17_SuperuserToAdminDashboard ==
    [][(/\ response'.view = "login_view" /\ response'.code = 302
        /\ users[response'.user].is_superuser)
       => response'.did = "admin_dashboard"
    ]_vars

\* ------------------------------------------------------------ C19
\* the step serves a request, which arrived at the time the response records
Served == response'.at > clock

Arrival == response'.at

\* the session the arriving request is authenticated by
Arriving == IF session.expire_date > Arrival THEN session ELSE NoSession

IdleTooLong ==
    /\ Arriving.user # NoUser /\ Arriving.last_activity_ts # NoTime
    /\ Arrival - Arriving.last_activity_ts > AUTO_LOGOUT_TIMEOUT

ViewRan == response'.view # "AutoLogoutMiddleware"

\* C19: a request of an authenticated session whose stored last_activity_ts
\* is more than AUTO_LOGOUT_TIMEOUT seconds before the request time logs the
\* user out, does not run the view and is answered by a redirect to index;
\* every other authenticated request runs the view with last_activity_ts set
\* to the request time; an anonymous request runs it with last_activity_ts
\* removed; so no view runs for a session whose last response is older than
\* the timeout.
C19_InactiveSessionsLoggedOut ==
    [][Served =>
          /\ IdleTooLong =>
                /\ ~ViewRan /\ session'.user = NoUser
                /\ response'.code = 302 /\ response'.did = "index"
          /\ (Arriving.user # NoUser /\ ~IdleTooLong) =>
                /\ ViewRan
                /\ response'.view = "index" => session'.last_activity_ts = Arrival
          /\ Arriving.user = NoUser =>
                /\ ViewRan
                /\ response'.view = "index" => session'.last_activity_ts = NoTime
          /\ (ViewRan /\ Arriving.user # NoUser) =>
                Arrival - (Arriving.expire_date - SESSION_COOKIE_AGE)
                    <= AUTO_LOGOUT_TIMEOUT
    ]_vars

\* ------------------------------------------------------------ C18, C20
\* C18: claim_case assigns a report to the requesting counselor only if the
\* report is unassigned: no claim_case request changes the assignee of a
\* report that has one, also when two claims overlap; a counselor is told the
\* claim succeeded, and logged as claiming, only when the report was
\* unassigned and is now assigned to that counselor.
C18_ClaimOnlyUnassigned ==
    [][response'.view = "claim_case" /\ response' # response =>
          LET r == response'.report
          IN  /\ reports[r].assigned_to # NoUser =>
                    reports'[r].assigned_to = reports[r].assigned_to
              /\ IF response'.did = "claim_case"
                 THEN /\ reports[r].assigned_to = NoUser
                      /\ reports'[r].assigned_to = response'.user
                      /\ systemLog' = Append(systemLog,
                                             LogEntry(response'.user, "EDITED", r))
                 ELSE systemLog' = systemLog /\ reports' = reports
    ]_vars

\* C20: when no request is in progress, a report that is not resolved and has
\* at least one message has awaiting_response True if and only if its most
\* recent ChatMessage was sent by its reporter.
C20_AwaitingFollowsLatestMessage ==
    inflight = {} =>
        \A r \in ReportIds :
            (reports[r].status # RESOLVED /\ LatestSender(chatMessages, r) # NoUser)
            => (reports[r].awaiting_response
                    <=> LatestSender(chatMessages, r) = reports[r].reporter)

\* the account that signed in to this browser: the first row of its security
\* log, written by login_view before any impersonation
SignedInAdministrator == securityLog[1].actor

StopServed ==
    /\ response'.view = "admin_stop_impersonation"
    /\ response'.method = "POST"
    /\ response'.user # NoUser

ImpersonationKeysGone(s) ==
    /\ s.impersonator_id = NoUser
    /\ s.impersonator_name = ""
    /\ s.impersonator_backend = ""
    /\ s.is_impersonating = FALSE
    /\ s.impersonation_started_at = NoTime

\* C21: admin_stop_impersonation, requested in a session that holds an
\* impersonator_id, leaves the session authenticated as the administrator who
\* was signed in before the first impersonation and without any of the five
\* impersonation keys; requested in a session without impersonator_id, it
\* leaves the authenticated user unchanged.
C21_StopReturnsToOriginalAdministrator ==
    [][StopServed =>
          IF session.impersonator_id # NoUser
          THEN /\ session'.user = SignedInAdministrator
               /\ ImpersonationKeysGone(session')
          ELSE session'.user = session.user]_vars

\* the AdminAlert rows a superuser holds for a report
AlertsHeld(alerts, a, r) ==
    {i \in 1..Len(alerts) : alerts[i].admin = a /\ alerts[i].report = r}

ResolveSubmitted(r) ==
    /\ response'.view = "case_detail"
    /\ response'.report = r
    /\ response'.did = "resolve_case"

BecameResolved(r) ==
    /\ r \in ReportIds
    /\ reports[r].status # RESOLVED
    /\ reports'[r].status = RESOLVED

\* C22: a resolve_case the assigned counselor submits leaves the report
\* resolved and gives every superuser exactly one new unread AdminAlert for
\* it; and a superuser's AdminAlerts for a report grow only in a step that
\* takes that report from not resolved to resolved, by one. Here reports
\* become resolved through resolve_case alone, so this step rule is the
\* stated count: no alert for a case never resolved, and never more alerts
\* than resolutions.
C22_OneAlertPerResolution ==
    [][\A r \in ReportIds :
          /\ ResolveSubmitted(r) =>
                /\ reports[r].assigned_to = response'.user
                /\ reports'[r].status = RESOLVED
                /\ \A a \in Users :
                      LET new == AlertsHeld(adminAlerts', a, r)
                                    \ AlertsHeld(adminAlerts, a, r)
                      IN  /\ users[a].is_superuser => Cardinality(new) = 1
                          /\ ~users[a].is_superuser => new = {}
                          /\ \A i \in new : ~adminAlerts'[i].is_read
          /\ \A a \in Users :
                Cardinality(AlertsHeld(adminAlerts', a, r))
                    > Cardinality(AlertsHeld(adminAlerts, a, r))
                => /\ BecameResolved(r)
                   /\ Cardinality(AlertsHeld(adminAlerts', a, r))
                         = Cardinality(AlertsHeld(adminAlerts, a, r)) + 1
      ]_vars

\* C23: no request removes or changes a SystemLog entry once written: after
\* every step all earlier entries are still there, unchanged, and the trail
\* is at least as long as before.
C23_SystemLogOnlyGrows ==
    [][/\ Len(systemLog') >= Len(systemLog)
       /\ \A i \in 1..Len(systemLog) : systemLog'[i] = systemLog[i]]_vars

\* what a client was sent in this step
NewlyReceived(c) ==
    IF c \in DOMAIN sockets
    THEN SubSeq(sockets'[c].received, Len(sockets[c].received) + 1,
                Len(sockets'[c].received))
    ELSE sockets'[c].received

NewMessageEvents(c) ==
    {i \in DOMAIN NewlyReceived(c) : NewlyReceived(c)[i].data.title = "New message"}

InAGroup(c) == \E g \in {GroupName(u) : u \in Users} \cup {NoGroup} : <<g, c>> \in channelGroups

\* C24: a connection is sent only what went to the group user_<pk> of the
\* user it authenticated as; an anonymous connection is closed and in no
\* group; a closed connection is in no group; and the new-message
\* notification of a student's message on a report reaches only connections
\* of that report's assigned counselor, and none when the sender is staff or
\* the report is unassigned.
C24_NotificationsReachOnlyTheAddressee ==
    /\ [](\A c \in DOMAIN sockets :
            /\ \A i \in DOMAIN sockets[c].received :
                  /\ sockets[c].user # NoUser
                  /\ sockets[c].received[i].group = GroupName(sockets[c].user)
            /\ sockets[c].user = NoUser => sockets[c].state = "closed" /\ ~InAGroup(c)
            /\ sockets[c].state = "closed" => ~InAGroup(c)
            /\ \A g \in {GroupName(u) : u \in Users} :
                  <<g, c>> \in channelGroups => g = GroupName(sockets[c].user))
    /\ [][\A c \in DOMAIN sockets' : \A i \in NewMessageEvents(c) :
            LET r == NewlyReceived(c)[i].data.report
            IN  /\ response'.view = "report_messages"
                /\ response'.report = r
                /\ reports[r].reporter = response'.user
                /\ ~users[response'.user].is_staff
                /\ reports[r].assigned_to # NoUser
                /\ sockets[c].user = reports[r].assigned_to]_vars

\* an open connection of the assigned counselor has been sent the new-message
\* notification while an open connection of another user has been sent nothing
C24_Witness ==
    \E c, d \in DOMAIN sockets :
        /\ sockets[c].state = "open" /\ sockets[d].state = "open"
        /\ sockets[c].user # sockets[d].user
        /\ sockets[d].received = <<>>
        /\ \E i \in DOMAIN sockets[c].received :
              LET e == sockets[c].received[i]
              IN  /\ e.data.title = "New message"
                  /\ reports[e.data.report].assigned_to = sockets[c].user

\* C25: every stored report has status resolved exactly when its stored
\* resolved_at is set.
C25_ResolvedIffResolvedAt ==
    \A r \in ReportIds :
        reports[r].status = RESOLVED <=> reports[r].resolved_at # NoTime

\* the transaction of an assign_counselor call ran in this step
AssignTransaction(h) ==
    h \in inflight /\ h \notin inflight' /\ h.view = "assign_counselor"

\* a counselor's assigned reports that are not resolved, before and after
ActiveBefore(u) ==
    {r \in DOMAIN reports : reports[r].assigned_to = u /\ reports[r].status # RESOLVED}

ActiveAfter(u) ==
    {r \in DOMAIN reports' : reports'[r].assigned_to = u /\ reports'[r].status # RESOLVED}

\* C26: whatever requests run between its steps, an assign_counselor call
\* never takes a counselor's number of assigned non-resolved reports above
\* that counselor's max_active_cases and never replaces an assignee a report
\* already has.
C26_AssignWithinCapacity ==
    [][\A h \in inflight : AssignTransaction(h) =>
          /\ \A u \in Users :
                Cardinality(ActiveAfter(u)) > Cardinality(ActiveBefore(u))
                => /\ profiles'[u].exists
                   /\ Cardinality(ActiveAfter(u)) <= profiles'[u].max_active_cases
          /\ \A r \in ReportIds :
                reports[r].assigned_to # NoUser
                => reports'[r].assigned_to = reports[r].assigned_to]_vars

====
